---- MODULE Spec2Model ----
(***************************************************************************)
(* Model of src/main.py: the configuration parser/serializer               *)
(* (ConfigParser.parse / ConfigParser.save), the form widgets that load    *)
(* and collect a configuration, and the PrefsEditor operations that use    *)
(* them.                                                                   *)
(*                                                                         *)
(* Text is modelled character by character.  A Python str is a sequence    *)
(* of one-character strings, e.g. "jit" is <<"j", "i", "t">>.  The         *)
(* character "SUP2" stands for U+00B2 (superscript two), a character for   *)
(* which str.isdigit() is True and int() raises ValueError.                *)
(*                                                                         *)
(* A Python dict is a sequence of <<key, value>> pairs in insertion        *)
(* order with unique keys.  A dynamically typed value is a record          *)
(* tagged with its type t ("bool", "int", "float", "str", "list") and      *)
(* holding its payload in a field named after the type (b, i, f, s, l).    *)
(***************************************************************************)
EXTENDS Integers, Sequences, FiniteSets, TLC

VARIABLES
    fs,        \* file system: path -> NoFile or File(text)
    writable,  \* path -> whether open(path, 'w') succeeds
    doc,       \* the dict held by the caller of ConfigParser (parse result or built)
    origin,    \* where doc comes from: "none", "parsed", "parsed_missing", "built"
    saved,     \* history: the dict handed to the last completed ConfigParser.save
    lastOp,    \* the operation run last
    exc,       \* the exception the last operation raised to its caller, or "none"
    settings,  \* QSettings: emulator -> its config path, "" when unset
    form,      \* emulator -> the widgets of its EmulatorTab
    msg,       \* the QMessageBox the last operation showed: kind, title, cause
    io,        \* history: path -> what the last operation's save did to it
    images,    \* the image files the file dialog can return
    tab,       \* the emulator whose tab is in front
    exe,       \* QSettings: emulator -> its executable path, "" when unset
    programs,  \* the executable paths for which os.path.exists is True
    proc       \* the arguments of the process the last operation started, or NoProcess

vars == <<fs, writable, doc, origin, saved, lastOp, exc, settings, form, msg, io, images, tab,
          exe, programs, proc>>

\* ------------------------------------------------------------------------
\* Bounds of the model
\* ------------------------------------------------------------------------
\* Number of lines of a configuration file present before the program runs.
MaxLines == 3

\* ------------------------------------------------------------------------
\* Characters and Python str methods
\* ------------------------------------------------------------------------
\* What a path holds: no file, or a file with its text.
NoFile == [exists |-> FALSE]
File(text) == [exists |-> TRUE, text |-> text]

\* Characters str.strip() removes (the subset of Python whitespace in the alphabet).
Whitespace == {" ", "\t", "\n"}

\* Decimal digits: str.isdigit() is True and int() accepts them.
DecimalDigits == <<"0", "1", "2", "3", "4", "5", "6", "7", "8", "9">>

\* Characters with str.isdigit() True that int() rejects (Unicode category No).
NonDecimalDigits == {"SUP2"}

UpperCase == <<"A", "B", "C", "D", "E", "F", "G", "H", "I", "J", "K", "L", "M",
               "N", "O", "P", "Q", "R", "S", "T", "U", "V", "W", "X", "Y", "Z">>
LowerCase == <<"a", "b", "c", "d", "e", "f", "g", "h", "i", "j", "k", "l", "m",
               "n", "o", "p", "q", "r", "s", "t", "u", "v", "w", "x", "y", "z">>

Range(s) == {s[i] : i \in 1..Len(s)}

MinOf(S) == CHOOSE x \in S : \A y \in S : x <= y
MaxOf(S) == CHOOSE x \in S : \A y \in S : x >= y

lower_char(c) ==
    IF \E i \in 1..Len(UpperCase) : UpperCase[i] = c
    THEN LowerCase[CHOOSE i \in 1..Len(UpperCase) : UpperCase[i] = c]
    ELSE c

\* str.lower()
lower(s) == [i \in 1..Len(s) |-> lower_char(s[i])]

\* str.strip(): drop leading and trailing whitespace.
strip(s) ==
    LET keep == {i \in 1..Len(s) : s[i] \notin Whitespace}
    IN  IF keep = {} THEN <<>> ELSE SubSeq(s, MinOf(keep), MaxOf(keep))

\* str.split(' ', 1): split once, at the first single space character.
split_space_once(line) ==
    LET sp == {i \in 1..Len(line) : line[i] = " "}
    IN  IF sp = {} THEN <<line>>
        ELSE <<SubSeq(line, 1, MinOf(sp) - 1), SubSeq(line, MinOf(sp) + 1, Len(line))>>

\* The sequence 1, ..., n restricted to the indices that pass Test.
Indices(n, Test(_)) == SelectSeq([i \in 1..n |-> i], Test)

\* Iterating a text file: lines end at each "\n" (kept); the last may lack it.
readlines(s) ==
    LET IsEnd(i) == s[i] = "\n" \/ i = Len(s)
        ends == Indices(Len(s), IsEnd)
    IN  [k \in 1..Len(ends) |-> SubSeq(s, IF k = 1 THEN 1 ELSE ends[k - 1] + 1, ends[k])]

\* str.isdigit(): non-empty and every character is a digit.
isdigit(s) == s # <<>> /\ \A i \in 1..Len(s) : s[i] \in Range(DecimalDigits) \cup NonDecimalDigits

IsDecimal(s) == s # <<>> /\ \A i \in 1..Len(s) : s[i] \in Range(DecimalDigits)

DigitValue(c) == (CHOOSE i \in 1..10 : DecimalDigits[i] = c) - 1

\* The number a string of decimal digits denotes.
RECURSIVE DecimalValue(_)
DecimalValue(s) ==
    IF s = <<>> THEN 0
    ELSE 10 * DecimalValue(SubSeq(s, 1, Len(s) - 1)) + DigitValue(s[Len(s)])

\* Decimal digits of a natural number.
RECURSIVE NatToStr(_)
NatToStr(n) ==
    IF n < 10 THEN <<DecimalDigits[n + 1]>>
    ELSE NatToStr(n \div 10) \o <<DecimalDigits[(n % 10) + 1]>>

\* str(int)
IntToStr(n) == IF n < 0 THEN <<"-">> \o NatToStr(0 - n) ELSE NatToStr(n)

\* ------------------------------------------------------------------------
\* Dynamically typed values
\* ------------------------------------------------------------------------
BoolVal(b) == [t |-> "bool", b |-> b]
IntVal(n) == [t |-> "int", i |-> n]
StrVal(s) == [t |-> "str", s |-> s]
ListVal(l) == [t |-> "list", l |-> l]
\* A float is kept as an exact decimal: (-1)^neg * n / 10^k, with n not
\* divisible by 10 when k > 0; kind is "fin", "inf" or "nan".
FloatVal(kind, neg, n, k) == [t |-> "float", f |-> [kind |-> kind, neg |-> neg, n |-> n, k |-> k]]

RECURSIVE Pow10(_)
Pow10(k) == IF k = 0 THEN 1 ELSE 10 * Pow10(k - 1)

RECURSIVE NormalizeDecimal(_, _, _)
NormalizeDecimal(neg, n, k) ==
    IF k > 0 /\ n % 10 = 0 THEN NormalizeDecimal(neg, n \div 10, k - 1)
    ELSE FloatVal("fin", neg, n, k)

S_inf == <<"i", "n", "f">>
S_infinity == <<"i", "n", "f", "i", "n", "i", "t", "y">>
S_nan == <<"n", "a", "n">>
S_true == <<"t", "r", "u", "e">>
S_false == <<"f", "a", "l", "s", "e">>

\* float(s): Python strips surrounding whitespace, takes an optional sign,
\* then "inf"/"infinity"/"nan" in any case or decimal digits with at most one
\* point and at least one digit.  Exponents and digit-group underscores are
\* not in the model's inputs.  ok is FALSE when float() raises ValueError.
float_parse(s) ==
    LET Parsed(neg, body, low) ==
            LET dots == {i \in 1..Len(body) : body[i] = "."}
                ip == IF dots = {} THEN body ELSE SubSeq(body, 1, MinOf(dots) - 1)
                fp == IF dots = {} THEN <<>> ELSE SubSeq(body, MinOf(dots) + 1, Len(body))
            IN  IF low \in {S_inf, S_infinity}
                THEN [ok |-> TRUE, val |-> FloatVal("inf", neg, 0, 0)]
                ELSE IF low = S_nan
                THEN [ok |-> TRUE, val |-> FloatVal("nan", FALSE, 0, 0)]
                ELSE IF /\ Cardinality(dots) <= 1
                        /\ ip \o fp # <<>>
                        /\ \A i \in 1..Len(ip \o fp) : (ip \o fp)[i] \in Range(DecimalDigits)
                     THEN [ok |-> TRUE, val |-> NormalizeDecimal(neg, DecimalValue(ip \o fp), Len(fp))]
                     ELSE [ok |-> FALSE]
        Unsigned(neg, body) == Parsed(neg, body, lower(body))
        Stripped(t) ==
            Unsigned(t # <<>> /\ t[1] = "-",
                     IF t # <<>> /\ t[1] \in {"+", "-"} THEN SubSeq(t, 2, Len(t)) ELSE t)
    IN  Stripped(strip(s))

\* The fractional digits of n / 10^k, zero-padded on the left to k digits.
FracDigits(n, k) ==
    LET d == NatToStr(n % Pow10(k))
    IN  [i \in 1..(k - Len(d)) |-> "0"] \o d

\* repr(float), which str() and f-strings use.
float_repr(f) ==
    IF f.kind = "nan" THEN S_nan
    ELSE (IF f.neg THEN <<"-">> ELSE <<>>) \o
         (IF f.kind = "inf" THEN S_inf
          ELSE NatToStr(f.n \div Pow10(f.k)) \o <<".">> \o
               (IF f.k = 0 THEN <<"0">> ELSE FracDigits(f.n, f.k)))

\* ------------------------------------------------------------------------
\* dict operations (insertion-ordered, unique keys)
\* ------------------------------------------------------------------------
dict_keys(d) == [i \in 1..Len(d) |-> d[i][1]]

dict_has(d, k) == \E i \in 1..Len(d) : d[i][1] = k

\* d.get(k, default)
dict_get(d, k, default) ==
    IF dict_has(d, k) THEN d[CHOOSE i \in 1..Len(d) : d[i][1] = k][2] ELSE default

\* d[k] = v: overwrite in place, or append a new key.
dict_set(d, k, v) ==
    IF dict_has(d, k)
    THEN [i \in 1..Len(d) |-> IF d[i][1] = k THEN <<k, v>> ELSE d[i]]
    ELSE Append(d, <<k, v>>)

\* A bug that would keep the first value assigned to a key.
set_items_keep_first(config, items) ==
    LET all == config \o items
        IsFirst(i) == \A j \in 1..(i - 1) : all[j][1] # all[i][1]
        firsts == Indices(Len(all), IsFirst)
    IN  [m \in 1..Len(firsts) |-> all[firsts[m]]]

\* config[k1] = v1; config[k2] = v2; ... in order: a key stays where it
\* was first assigned and holds the value assigned to it last.
set_items(config, items) ==
    LET all == config \o items
        IsFirst(i) == \A j \in 1..(i - 1) : all[j][1] # all[i][1]
        firsts == Indices(Len(all), IsFirst)
        last(i) == MaxOf({j \in 1..Len(all) : all[j][1] = all[i][1]})
    IN  [m \in 1..Len(firsts) |-> <<all[firsts[m]][1], all[last(firsts[m])][2]>>]

\* ------------------------------------------------------------------------
\* ConfigParser
\* ------------------------------------------------------------------------
K_disk == <<"d", "i", "s", "k">>
K_disks == <<"d", "i", "s", "k", "s">>

\* int(s) for a string s with s.isdigit(): ValueError when s holds a digit
\* character that is not a decimal digit.
int_parse(s) ==
    IF IsDecimal(s) THEN [exc |-> "none", val |-> IntVal(DecimalValue(s))]
    ELSE [exc |-> "ValueError"]

\* Lines 55-66: the type given to the value of a non-disk line, or the
\* exception that leaves the try-less int(value) of line 61.
infer_value(value) ==
    LET Typed(low, f) ==
            IF low = S_true THEN [exc |-> "none", val |-> BoolVal(TRUE)]
            ELSE IF low = S_false THEN [exc |-> "none", val |-> BoolVal(FALSE)]
            ELSE IF isdigit(value) THEN int_parse(value)
            ELSE IF f.ok THEN [exc |-> "none", val |-> f.val]
            ELSE [exc |-> "none", val |-> StrVal(value)]
    IN  Typed(lower(value), float_parse(value))

\* Lines 47-49: key and value of a stripped, non-empty line.
line_key(line) == split_space_once(line)[1]
line_value(line) ==
    LET parts == split_space_once(line)
    IN  IF Len(parts) > 1 THEN parts[2] ELSE <<>>

\* A bug that would keep the first value of a repeated key instead of the
\* last.
parse_loop_keep_first(lines) ==
    LET stripped == [i \in 1..Len(lines) |-> strip(lines[i])]
        IsDisk(i) == stripped[i] # <<>> /\ line_key(stripped[i]) = K_disk
        IsScalar(i) == stripped[i] # <<>> /\ line_key(stripped[i]) # K_disk
        Collected(typed, raised, scalars, disks) ==
            [exc |-> raised,
             config |-> set_items_keep_first(<<>>,
                            [m \in 1..Len(scalars) |->
                                <<line_key(stripped[scalars[m]]), typed[scalars[m]].val>>]),
             disks |-> [m \in 1..Len(disks) |-> line_value(stripped[disks[m]])]]
        Upto(typed, raising, stop) ==
            Collected(typed, IF raising = {} THEN "none" ELSE typed[stop].exc,
                      Indices(stop - 1, IsScalar), Indices(stop - 1, IsDisk))
        Stopped(typed, raising) ==
            Upto(typed, raising, IF raising = {} THEN Len(lines) + 1 ELSE MinOf(raising))
        Typed(typed) == Stopped(typed, {i \in 1..Len(lines) : typed[i].exc # "none"})
    IN  Typed([i \in 1..Len(lines) |->
                  IF IsScalar(i) THEN infer_value(line_value(stripped[i])) ELSE [exc |-> "none"]])

\* Lines 42-67: the loop over the lines of the file, up to the first line
\* whose value raises: blank lines are skipped, a disk line appends its
\* value to disks, any other line assigns its typed value to its key.
parse_loop(lines) ==
    LET stripped == [i \in 1..Len(lines) |-> strip(lines[i])]
        IsDisk(i) == stripped[i] # <<>> /\ line_key(stripped[i]) = K_disk
        IsScalar(i) == stripped[i] # <<>> /\ line_key(stripped[i]) # K_disk
        Collected(typed, raised, scalars, disks) ==
            [exc |-> raised,
             config |-> set_items(<<>>,
                            [m \in 1..Len(scalars) |->
                                <<line_key(stripped[scalars[m]]), typed[scalars[m]].val>>]),
             disks |-> [m \in 1..Len(disks) |-> line_value(stripped[disks[m]])]]
        Upto(typed, raising, stop) ==
            Collected(typed, IF raising = {} THEN "none" ELSE typed[stop].exc,
                      Indices(stop - 1, IsScalar), Indices(stop - 1, IsDisk))
        Stopped(typed, raising) ==
            Upto(typed, raising, IF raising = {} THEN Len(lines) + 1 ELSE MinOf(raising))
        Typed(typed) == Stopped(typed, {i \in 1..Len(lines) : typed[i].exc # "none"})
    IN  Typed([i \in 1..Len(lines) |->
                  IF IsScalar(i) THEN infer_value(line_value(stripped[i])) ELSE [exc |-> "none"]])

\* A bug that would leave out the assignment of line 69 when a line of the
\* file has already made an entry with the key 'disks'.
ConfigParser_parse_keep_disks_line(content) ==
    LET Returned(r) ==
            IF r.exc # "none" THEN [exc |-> r.exc, ret |-> <<>>]
            ELSE IF dict_has(r.config, K_disks) THEN [exc |-> "none", ret |-> r.config]
            ELSE [exc |-> "none", ret |-> dict_set(r.config, K_disks, ListVal(r.disks))]
    IN  IF ~content.exists THEN [exc |-> "none", ret |-> <<>>]
        ELSE Returned(parse_loop(readlines(content.text)))

\* ConfigParser.parse(filepath), given what the path holds: the exception
\* raised, if any, and the dict returned (lines 35-39 and 69-70).
ConfigParser_parse(content) ==
    LET Returned(r) ==
            IF r.exc # "none" THEN [exc |-> r.exc, ret |-> <<>>]
            ELSE [exc |-> "none", ret |-> dict_set(r.config, K_disks, ListVal(r.disks))]
    IN  IF ~content.exists THEN [exc |-> "none", ret |-> <<>>]
        ELSE Returned(parse_loop(readlines(content.text)))

\* A bug that would leave out the bool conversion of lines 84-85: str(True)
\* is "True".
format_value_no_bool_case(val) ==
    CASE val.t = "bool" -> IF val.b THEN <<"T", "r", "u", "e">> ELSE <<"F", "a", "l", "s", "e">>
      [] val.t = "int" -> IntToStr(val.i)
      [] val.t = "float" -> float_repr(val.f)
      [] val.t = "str" -> val.s

\* f"{value}" after the bool conversion of lines 84-85.  A list is written
\* only under the key 'disks', which save skips.
format_value(val) ==
    CASE val.t = "bool" -> IF val.b THEN S_true ELSE S_false
      [] val.t = "int" -> IntToStr(val.i)
      [] val.t = "float" -> float_repr(val.f)
      [] val.t = "str" -> val.s

\* The text of successive f.write calls.  (The argument is bound through
\* a singleton set, which evaluates it once at each level.)
RECURSIVE written(_)
written(chunks0) ==
    CHOOSE r \in
      {IF chunks = <<>> THEN <<>>
       ELSE IF Len(chunks) = 1 THEN chunks[1]
       ELSE written(SubSeq(chunks, 1, Len(chunks) \div 2))
            \o written(SubSeq(chunks, Len(chunks) \div 2 + 1, Len(chunks)))
       : chunks \in {chunks0}} : TRUE

\* A bug that would write the disk lines under the key of the dict entry.
write_disks_as_disks(disks) ==
    written([i \in 1..Len(disks) |-> K_disks \o <<" ">> \o disks[i] \o <<"\n">>])

\* Lines 77-78: one "disk <value>" line per disk.
write_disks(disks) ==
    written([i \in 1..Len(disks) |-> K_disk \o <<" ">> \o disks[i] \o <<"\n">>])

\* Lines 81-86: one "<key> <value>" line per item, skipping 'disks'.
write_items(items) ==
    written([i \in 1..Len(items) |->
                IF items[i][1] = K_disks THEN <<>>
                ELSE items[i][1] \o <<" ">> \o format_value(items[i][2]) \o <<"\n">>])

\* config.get('disks', [])
disks_of(config) == dict_get(config, K_disks, ListVal(<<>>)).l

\* A bug that would write the scalar items before the disk lines.
ConfigParser_save_items_first(config) ==
    write_items(config) \o write_disks(disks_of(config))

\* ConfigParser.save(filepath, config): the text written to the file.
ConfigParser_save(config) ==
    write_disks(disks_of(config)) \o write_items(config)

\* ------------------------------------------------------------------------
\* Inputs: the configuration files and dicts the model draws from
\* ------------------------------------------------------------------------
K_jit == <<"j", "i", "t">>
K_Jit == <<"J", "i", "t">>
K_ramsize == <<"r", "a", "m", "s", "i", "z", "e">>
V_TRUE == <<"T", "R", "U", "E">>
V_True == <<"T", "r", "u", "e">>
V_128 == <<"1", "2", "8">>
V_007 == <<"0", "0", "7">>
V_1p5 == <<"1", ".", "5">>
V_neg5 == <<"-", "5">>
V_dsp == <<"/", "d", "e", "v", "/", "d", "s", "p">>
V_MyFiles == <<"/", "U", "s", "e", "r", "s", "/", "m", "e", "/", "M", "y", " ", "F", "i", "l", "e", "s">>
V_sup2 == <<"SUP2">>
V_a == <<"/", "a", ".", "i", "m", "g">>
V_b == <<"/", "b", ".", "i", "m", "g">>
V_c == <<"/", "c", ".", "i", "m", "g">>

\* Values a line may carry after its key.
InputValues ==
    {S_true, V_TRUE, V_True, S_false, V_128, V_007, V_1p5, V_neg5, S_inf,
     V_dsp, V_MyFiles, V_sup2, <<>>}

\* The lines a configuration file may hold (without their line ends).
InputLines ==
    {K_jit \o <<" ">> \o v : v \in InputValues}
    \cup {K_jit \o sep \o v : sep \in {<<" ", " ">>, <<"\t">>}, v \in {V_TRUE, V_128}}
    \cup {K_ramsize \o <<" ">> \o V_128, K_Jit \o <<" ">> \o S_false,
          K_disks \o <<" ">> \o V_a,
          <<" ", "\t">> \o K_jit \o <<" ">> \o S_true \o <<" ", "\t">>,
          <<>>, <<" ", "\t">>}
    \cup {K_disk \o <<" ">> \o v : v \in {V_a, V_b, V_MyFiles, S_true, V_128}}
    \cup {K_disk, K_disk \o <<" ", " ">> \o V_a, K_disk \o <<"\t">> \o V_a}

\* The lines that files of several lines are made of.
CoreLines ==
    {K_jit \o <<" ">> \o S_true, K_jit \o <<" ">> \o V_TRUE \o <<" ">>,
     K_jit \o <<" ">> \o V_007, K_Jit \o <<" ">> \o S_false,
     K_disk \o <<" ">> \o V_a, K_disk \o <<" ">> \o V_b,
     K_disks \o <<" ">> \o V_a, K_jit \o <<" ">> \o V_sup2, <<>>}

RECURSIVE join_lines(_)
join_lines(lines) ==
    IF lines = <<>> THEN <<>> ELSE Head(lines) \o <<"\n">> \o join_lines(Tail(lines))

\* The text of the files present before the program runs: one line of
\* InputLines with or without its "\n", or at most MaxLines lines of CoreLines.
InputTexts ==
    {l \o e : l \in InputLines, e \in {<<>>, <<"\n">>}}
    \cup {join_lines(ls) : ls \in UNION {[1..n -> CoreLines] : n \in 0..MaxLines}}

K_extfs == <<"e", "x", "t", "f", "s">>
K_mag_rate == <<"m", "a", "g", "_", "r", "a", "t", "e">>

\* Items a caller may put into a dict it builds itself.
BuiltItems ==
    {<<K_jit, BoolVal(TRUE)>>, <<K_jit, BoolVal(FALSE)>>, <<K_jit, StrVal(V_True)>>,
     <<K_ramsize, IntVal(128)>>, <<K_extfs, StrVal(V_MyFiles)>>,
     <<K_mag_rate, FloatVal("fin", FALSE, 15, 1)>>}

\* Number of scalar items of a dict built by the caller.
MaxBuiltItems == 2

\* Dicts built by a caller: 'disks' first, as EmulatorTab.save_config builds
\* them, then scalar items with distinct keys.
BuiltDocs ==
    LET seqs == UNION {[1..n -> BuiltItems] : n \in 0..MaxBuiltItems}
        distinct(q) == \A i, j \in 1..Len(q) : q[i][1] = q[j][1] => i = j
    IN  {<<<<K_disks, ListVal(ds)>>>> \o q :
            ds \in {<<>>, <<V_a>>, <<V_b, V_a>>}, q \in {x \in seqs : distinct(x)}}

\* ------------------------------------------------------------------------
\* The form: keys, widget texts and the Python/Qt operations the tabs use
\* ------------------------------------------------------------------------
\* The configuration keys the tabs read and write.
K ==
    [disks |-> K_disks,
     extfs |-> K_extfs,
     ramsize |-> K_ramsize,
     jit |-> K_jit,
     mag_rate |-> K_mag_rate,
     rom |-> <<"r", "o", "m">>,
     bootdrive |-> <<"b", "o", "o", "t", "d", "r", "i", "v", "e">>,
     bootdriver |-> <<"b", "o", "o", "t", "d", "r", "i", "v", "e", "r">>,
     nocdrom |-> <<"n", "o", "c", "d", "r", "o", "m">>,
     screen |-> <<"s", "c", "r", "e", "e", "n">>,
     displaycolordepth |-> <<"d", "i", "s", "p", "l", "a", "y", "c", "o", "l", "o", "r", "d", "e", "p", "t", "h">>,
     frameskip |-> <<"f", "r", "a", "m", "e", "s", "k", "i", "p">>,
     gfxaccel |-> <<"g", "f", "x", "a", "c", "c", "e", "l">>,
     scale_nearest |-> <<"s", "c", "a", "l", "e", "_", "n", "e", "a", "r", "e", "s", "t">>,
     scale_integer |-> <<"s", "c", "a", "l", "e", "_", "i", "n", "t", "e", "g", "e", "r">>,
     sdlrender |-> <<"s", "d", "l", "r", "e", "n", "d", "e", "r">>,
     nosound |-> <<"n", "o", "s", "o", "u", "n", "d">>,
     sound_buffer |-> <<"s", "o", "u", "n", "d", "_", "b", "u", "f", "f", "e", "r">>,
     dsp |-> <<"d", "s", "p">>,
     mixer |-> <<"m", "i", "x", "e", "r">>,
     ether |-> <<"e", "t", "h", "e", "r">>,
     udptunnel |-> <<"u", "d", "p", "t", "u", "n", "n", "e", "l">>,
     udpport |-> <<"u", "d", "p", "p", "o", "r", "t">>,
     nonet |-> <<"n", "o", "n", "e", "t">>,
     cpu |-> <<"c", "p", "u">>,
     modelid |-> <<"m", "o", "d", "e", "l", "i", "d">>,
     fpu |-> <<"f", "p", "u">>,
     jitfpu |-> <<"j", "i", "t", "f", "p", "u">>,
     jitcachesize |-> <<"j", "i", "t", "c", "a", "c", "h", "e", "s", "i", "z", "e">>,
     jitlazyflush |-> <<"j", "i", "t", "l", "a", "z", "y", "f", "l", "u", "s", "h">>,
     jitinline |-> <<"j", "i", "t", "i", "n", "l", "i", "n", "e">>,
     jitdebug |-> <<"j", "i", "t", "d", "e", "b", "u", "g">>,
     cpuclock |-> <<"c", "p", "u", "c", "l", "o", "c", "k">>,
     jit68k |-> <<"j", "i", "t", "6", "8", "k">>,
     keyboardtype |-> <<"k", "e", "y", "b", "o", "a", "r", "d", "t", "y", "p", "e">>,
     keycodes |-> <<"k", "e", "y", "c", "o", "d", "e", "s">>,
     keycodefile |-> <<"k", "e", "y", "c", "o", "d", "e", "f", "i", "l", "e">>,
     hotkey |-> <<"h", "o", "t", "k", "e", "y">>,
     swap_opt_cmd |-> <<"s", "w", "a", "p", "_", "o", "p", "t", "_", "c", "m", "d">>,
     mousewheelmode |-> <<"m", "o", "u", "s", "e", "w", "h", "e", "e", "l", "m", "o", "d", "e">>,
     mousewheellines |-> <<"m", "o", "u", "s", "e", "w", "h", "e", "e", "l", "l", "i", "n", "e", "s">>,
     init_grab |-> <<"i", "n", "i", "t", "_", "g", "r", "a", "b">>,
     hardcursor |-> <<"h", "a", "r", "d", "c", "u", "r", "s", "o", "r">>,
     seriala |-> <<"s", "e", "r", "i", "a", "l", "a">>,
     serialb |-> <<"s", "e", "r", "i", "a", "l", "b">>,
     nogui |-> <<"n", "o", "g", "u", "i">>,
     noclipconversion |-> <<"n", "o", "c", "l", "i", "p", "c", "o", "n", "v", "e", "r", "s", "i", "o", "n">>,
     ignoresegv |-> <<"i", "g", "n", "o", "r", "e", "s", "e", "g", "v">>,
     ignoreillegal |-> <<"i", "g", "n", "o", "r", "e", "i", "l", "l", "e", "g", "a", "l">>,
     idlewait |-> <<"i", "d", "l", "e", "w", "a", "i", "t">>,
     yearofs |-> <<"y", "e", "a", "r", "o", "f", "s">>,
     dayofs |-> <<"d", "a", "y", "o", "f", "s">>,
     name_encoding |-> <<"n", "a", "m", "e", "_", "e", "n", "c", "o", "d", "i", "n", "g">>,
     delay |-> <<"d", "e", "l", "a", "y">>]

\* Combo box items, default texts and other literals of the tabs.
T ==
    [win |-> <<"w", "i", "n">>,
     dga |-> <<"d", "g", "a">>,
     full |-> <<"f", "u", "l", "l">>,
     depth0 |-> <<"0", " ", "(", "D", "e", "f", "a", "u", "l", "t", ")">>,
     d8 |-> <<"8">>,
     d16 |-> <<"1", "6">>,
     d24 |-> <<"2", "4">>,
     d32 |-> <<"3", "2">>,
     software |-> <<"s", "o", "f", "t", "w", "a", "r", "e">>,
     opengl |-> <<"o", "p", "e", "n", "g", "l">>,
     opengles |-> <<"o", "p", "e", "n", "g", "l", "e", "s">>,
     opengles2 |-> <<"o", "p", "e", "n", "g", "l", "e", "s", "2">>,
     metal |-> <<"m", "e", "t", "a", "l">>,
     slirp |-> <<"s", "l", "i", "r", "p">>,
     none |-> <<"n", "o", "n", "e">>,
     tap |-> <<"t", "a", "p">>,
     sheep_net |-> <<"s", "h", "e", "e", "p", "_", "n", "e", "t">>,
     dev_dsp |-> <<"/", "d", "e", "v", "/", "d", "s", "p">>,
     dev_mixer |-> <<"/", "d", "e", "v", "/", "m", "i", "x", "e", "r">>,
     ttyS0 |-> <<"/", "d", "e", "v", "/", "t", "t", "y", "S", "0">>,
     ttyS1 |-> <<"/", "d", "e", "v", "/", "t", "t", "y", "S", "1">>,
     screen_default |-> <<"w", "i", "n", "/", "8", "0", "0", "/", "6", "0", "0">>,
     ture |-> <<"t", "u", "r", "e">>,
     PyTrue |-> <<"T", "r", "u", "e">>,
     PyFalse |-> <<"F", "a", "l", "s", "e">>]

\* str(value), as the line edits show a loaded value: str(True) is "True".
py_str(val) ==
    CASE val.t = "bool" -> IF val.b THEN T.PyTrue ELSE T.PyFalse
      [] val.t = "int" -> IntToStr(val.i)
      [] val.t = "float" -> float_repr(val.f)
      [] val.t = "str" -> val.s

\* value == n for an int n: Python compares bool, int and float by number.
py_eq_int(val, n) ==
    CASE val.t = "bool" -> (IF val.b THEN 1 ELSE 0) = n
      [] val.t = "int" -> val.i = n
      [] val.t = "float" ->
            /\ val.f.kind = "fin" /\ val.f.k = 0
            /\ (IF val.f.neg THEN 0 - val.f.n ELSE val.f.n) = n
      [] OTHER -> FALSE

\* float(value) for a value of any type: [exc, f].
py_float(val) ==
    LET OfStr(p) == IF p.ok THEN [exc |-> "none", f |-> p.val.f] ELSE [exc |-> "ValueError"]
    IN  CASE val.t = "bool" -> [exc |-> "none", f |-> FloatVal("fin", FALSE, IF val.b THEN 1 ELSE 0, 0).f]
          [] val.t = "int" ->
                [exc |-> "none", f |-> FloatVal("fin", val.i < 0, IF val.i < 0 THEN 0 - val.i ELSE val.i, 0).f]
          [] val.t = "float" -> [exc |-> "none", f |-> val.f]
          [] val.t = "str" -> OfStr(float_parse(val.s))
          [] OTHER -> [exc |-> "TypeError"]

\* int(s) for a str: surrounding whitespace, an optional sign, decimal digits.
py_int(s) ==
    LET t == strip(s)
        signed == t # <<>> /\ t[1] \in {"+", "-"}
        body == IF signed THEN SubSeq(t, 2, Len(t)) ELSE t
    IN  IF IsDecimal(body)
        THEN [exc |-> "none", i |-> IF t[1] = "-" THEN 0 - DecimalValue(body) ELSE DecimalValue(body)]
        ELSE [exc |-> "ValueError"]

\* str.split('/')
RECURSIVE split_slash(_)
split_slash(s) ==
    LET sl == {i \in 1..Len(s) : s[i] = "/"}
    IN  IF sl = {} THEN <<s>>
        ELSE <<SubSeq(s, 1, MinOf(sl) - 1)>> \o split_slash(SubSeq(s, MinOf(sl) + 1, Len(s)))

Clamp(n, lo, hi) == IF n < lo THEN lo ELSE IF n > hi THEN hi ELSE n

\* One widget assignment of a load: the widget, its new value, or the
\* exception the call raises.  The Qt binding takes a bool or an int where
\* the C++ signature has bool or int and raises TypeError for anything else.
Step(widget, value) == [exc |-> "none", w |-> widget, v |-> value]
Raise(e) == [exc |-> e]

\* QCheckBox.setChecked(value)
setChecked(widget, val) ==
    CASE val.t = "bool" -> Step(widget, val.b)
      [] val.t = "int" -> Step(widget, val.i # 0)
      [] OTHER -> Raise("TypeError")

\* QSpinBox.setValue(value) with the range set in init_ui.
setValue(widget, val, lo, hi) ==
    CASE val.t = "bool" -> Step(widget, Clamp(IF val.b THEN 1 ELSE 0, lo, hi))
      [] val.t = "int" -> Step(widget, Clamp(val.i, lo, hi))
      [] OTHER -> Raise("TypeError")

\* QLineEdit.setText(str(value)), and setCurrentText(str(value)) of an
\* editable combo box.
setText(widget, val) == Step(widget, py_str(val))

\* QComboBox.setCurrentText(text) of a combo box that is not editable: the
\* item with that text becomes current; with no such item nothing changes.
setCurrentText(widget, text, items, current) ==
    Step(widget, IF text \in items THEN text ELSE current)

\* The widget assignments of a load, in order, up to the first that raises.
run_steps(w, steps) ==
    LET raising == {i \in 1..Len(steps) : steps[i].exc # "none"}
        stop == IF raising = {} THEN Len(steps) + 1 ELSE MinOf(raising)
        setters(widget) == {i \in 1..(stop - 1) : steps[i].w = widget}
    IN  [exc |-> IF raising = {} THEN "none" ELSE steps[stop].exc,
         w |-> [widget \in DOMAIN w |->
                   IF setters(widget) = {} THEN w[widget]
                   ELSE steps[MaxOf(setters(widget))].v]]

\* QDoubleSpinBox.setValue(f) with the default two decimals and the range
\* 0.0 to 4.0 of init_ui.  No file of the model holds nan.
setDoubleValue(widget, f) ==
    CASE f.kind = "inf" -> Step(widget, FloatVal("fin", FALSE, IF f.neg THEN 0 ELSE 4, 0).f)
      [] f.kind = "fin" /\ f.neg -> Step(widget, FloatVal("fin", FALSE, 0, 0).f)
      [] f.kind = "fin" /\ ~f.neg /\ f.n > 4 * Pow10(f.k) -> Step(widget, FloatVal("fin", FALSE, 4, 0).f)
      [] f.kind = "fin" /\ ~f.neg /\ f.n <= 4 * Pow10(f.k) ->
            IF f.k <= 2 THEN Step(widget, f)
            ELSE Step(widget, NormalizeDecimal(FALSE, (f.n + 5 * Pow10(f.k - 3)) \div Pow10(f.k - 2), 2).f)

\* QSpinBox.setValue(int(text)): int() raises ValueError on a text that is
\* no integer.
setValueFromText(widget, text, lo, hi) ==
    LET Set(n) == IF n.exc # "none" THEN Raise(n.exc) ELSE Step(widget, Clamp(n.i, lo, hi))
    IN  Set(py_int(text))

Emus == {"basilisk", "sheepshaver"}

\* The data of the items of the RAM size combo box (lines 463-474).
RamSizes == <<8388608, 16777216, 33554432, 67108864, 134217728, 268435456, 536870912, 1073741824>>

\* The widgets of an EmulatorTab as init_ui leaves them.  Combo boxes hold
\* their current text, except ram_size and cpu_type which hold their
\* current index; disk_row is disk_list.currentRow().
InitialForm ==
    [config |-> <<>>,
     disk_list |-> <<>>, disk_row |-> -1, extfs_edit |-> <<>>, rom_edit |-> <<>>,
     boot_drive |-> 0, boot_driver |-> 0, no_cdrom |-> FALSE,
     screen_mode |-> T.win, screen_width |-> 800, screen_height |-> 600,
     color_depth |-> T.depth0, frameskip |-> 0, gfx_accel |-> FALSE,
     scale_nearest |-> FALSE, scale_integer |-> FALSE,
     mag_rate |-> FloatVal("fin", FALSE, 1, 0).f, sdl_render |-> T.software,
     no_sound |-> FALSE, sound_buffer |-> 0, dsp_edit |-> <<>>, mixer_edit |-> <<>>,
     ether_mode |-> T.slirp, udp_tunnel |-> FALSE, udp_port |-> 6066, no_net |-> FALSE,
     ram_size |-> 0, cpu_type |-> 0, model_id |-> 0, fpu_enabled |-> FALSE,
     cpu_clock |-> 0, jit_enabled |-> FALSE, jit_fpu |-> FALSE, jit_cache_size |-> 8192,
     jit_lazy_flush |-> FALSE, jit_inline |-> FALSE, jit_debug |-> FALSE, jit_68k |-> FALSE,
     kb_type |-> 0, keycodes |-> FALSE, keycode_file |-> <<>>, hotkey |-> 0,
     swap_opt_cmd |-> FALSE, mouse_wheel_mode |-> 0, mouse_wheel_lines |-> 1,
     init_grab |-> FALSE, hard_cursor |-> FALSE,
     serial_a |-> <<>>, serial_b |-> <<>>,
     no_gui |-> FALSE, no_clip_conversion |-> FALSE, ignore_segv |-> FALSE,
     ignore_illegal |-> FALSE, idle_wait |-> FALSE, year_offset |-> 0, day_offset |-> 0,
     name_encoding |-> 0, delay |-> 0]

\* --- DrivesTab ----------------------------------------------------------
DrivesTab_load_config(w, config) ==
    <<Step("disk_list", disks_of(config)), Step("disk_row", -1),
      setText("extfs_edit", dict_get(config, K.extfs, StrVal(<<>>))),
      setText("rom_edit", dict_get(config, K.rom, StrVal(<<>>))),
      setValue("boot_drive", dict_get(config, K.bootdrive, IntVal(0)), 0, 255),
      setValue("boot_driver", dict_get(config, K.bootdriver, IntVal(0)), 0, 255),
      setChecked("no_cdrom", dict_get(config, K.nocdrom, BoolVal(FALSE)))>>

\* A bug that would collect the disk list from the last row to the first.
DrivesTab_save_config_reversed(w, config) ==
    set_items(config,
      <<<<K.disks, ListVal([i \in 1..Len(w.disk_list) |-> w.disk_list[Len(w.disk_list) + 1 - i]])>>,
        <<K.extfs, StrVal(w.extfs_edit)>>,
        <<K.rom, StrVal(w.rom_edit)>>,
        <<K.bootdrive, IntVal(w.boot_drive)>>,
        <<K.bootdriver, IntVal(w.boot_driver)>>,
        <<K.nocdrom, BoolVal(w.no_cdrom)>>>>)

DrivesTab_save_config(w, config) ==
    set_items(config,
      <<<<K.disks, ListVal(w.disk_list)>>,
        <<K.extfs, StrVal(w.extfs_edit)>>,
        <<K.rom, StrVal(w.rom_edit)>>,
        <<K.bootdrive, IntVal(w.boot_drive)>>,
        <<K.bootdriver, IntVal(w.boot_driver)>>,
        <<K.nocdrom, BoolVal(w.no_cdrom)>>>>)

\* --- GraphicsTab --------------------------------------------------------
\* Lines 322-325 and 327-330: a str is checked when it reads true or ture.
setCheckedLenient(widget, val) ==
    IF val.t = "str" THEN Step(widget, lower(val.s) \in {S_true, T.ture})
    ELSE setChecked(widget, val)

GraphicsTab_load_config(w, config) ==
    LET parts == split_slash(py_str(dict_get(config, K.screen, StrVal(T.screen_default))))
        depth == dict_get(config, K.displaycolordepth, IntVal(0))
        mag == py_float(dict_get(config, K.mag_rate, FloatVal("fin", FALSE, 1, 0)))
        render == dict_get(config, K.sdlrender, StrVal(T.software))
    IN  (IF Len(parts) >= 3
         THEN <<setCurrentText("screen_mode", parts[1], {T.win, T.dga, T.full}, w.screen_mode),
                setValueFromText("screen_width", parts[2], 320, 3840),
                setValueFromText("screen_height", parts[3], 240, 2160)>>
         ELSE <<>>)
        \o <<IF py_eq_int(depth, 0) THEN Step("color_depth", T.depth0)
             ELSE setCurrentText("color_depth", py_str(depth),
                                 {T.depth0, T.d8, T.d16, T.d24, T.d32}, w.color_depth),
             setValue("frameskip", dict_get(config, K.frameskip, IntVal(0)), 0, 60),
             setChecked("gfx_accel", dict_get(config, K.gfxaccel, BoolVal(FALSE))),
             setCheckedLenient("scale_nearest", dict_get(config, K.scale_nearest, BoolVal(FALSE))),
             setCheckedLenient("scale_integer", dict_get(config, K.scale_integer, BoolVal(FALSE))),
             IF mag.exc # "none" THEN Raise(mag.exc) ELSE setDoubleValue("mag_rate", mag.f),
             IF render.t # "str" THEN Raise("TypeError")
             ELSE setCurrentText("sdl_render", render.s,
                                 {T.software, T.opengl, T.opengles, T.opengles2, T.metal},
                                 w.sdl_render)>>

GraphicsTab_save_config(w, config, emulator_type) ==
    set_items(config,
      <<<<K.screen, StrVal(w.screen_mode \o <<"/">> \o IntToStr(w.screen_width)
                              \o <<"/">> \o IntToStr(w.screen_height))>>,
        <<K.displaycolordepth,
          IntVal(IF "0" \in Range(w.color_depth) THEN 0 ELSE py_int(w.color_depth).i)>>,
        <<K.frameskip, IntVal(w.frameskip)>>>>
      \o (IF emulator_type = "sheepshaver" THEN <<<<K.gfxaccel, BoolVal(w.gfx_accel)>>>> ELSE <<>>)
      \o <<<<K.scale_nearest, BoolVal(w.scale_nearest)>>,
           <<K.scale_integer, BoolVal(w.scale_integer)>>,
           <<K.mag_rate, [t |-> "float", f |-> w.mag_rate]>>,
           <<K.sdlrender, StrVal(w.sdl_render)>>>>)

\* --- SoundTab -----------------------------------------------------------
SoundTab_load_config(w, config) ==
    <<setChecked("no_sound", dict_get(config, K.nosound, BoolVal(FALSE))),
      setValue("sound_buffer", dict_get(config, K.sound_buffer, IntVal(0)), 0, 65536),
      setText("dsp_edit", dict_get(config, K.dsp, StrVal(T.dev_dsp))),
      setText("mixer_edit", dict_get(config, K.mixer, StrVal(T.dev_mixer)))>>

SoundTab_save_config(w, config) ==
    set_items(config,
      <<<<K.nosound, BoolVal(w.no_sound)>>,
        <<K.sound_buffer, IntVal(w.sound_buffer)>>,
        <<K.dsp, StrVal(w.dsp_edit)>>,
        <<K.mixer, StrVal(w.mixer_edit)>>>>)

\* --- NetworkTab ---------------------------------------------------------
NetworkTab_load_config(w, config, emulator_type) ==
    <<setText("ether_mode", dict_get(config, K.ether, StrVal(T.slirp)))>>
    \o (IF emulator_type = "basilisk"
        THEN <<setChecked("udp_tunnel", dict_get(config, K.udptunnel, BoolVal(FALSE))),
               setValue("udp_port", dict_get(config, K.udpport, IntVal(6066)), 1, 65535)>>
        ELSE <<>>)
    \o (IF emulator_type = "sheepshaver"
        THEN <<setChecked("no_net", dict_get(config, K.nonet, BoolVal(FALSE)))>>
        ELSE <<>>)

NetworkTab_save_config(w, config, emulator_type) ==
    set_items(config,
      <<<<K.ether, StrVal(w.ether_mode)>>>>
      \o (IF emulator_type = "basilisk"
          THEN <<<<K.udptunnel, BoolVal(w.udp_tunnel)>>, <<K.udpport, IntVal(w.udp_port)>>>>
          ELSE <<>>)
      \o (IF emulator_type = "sheepshaver" THEN <<<<K.nonet, BoolVal(w.no_net)>>>> ELSE <<>>))

\* --- CpuMemoryTab -------------------------------------------------------
CpuMemoryTab_load_config(w, config, emulator_type) ==
    LET ram == dict_get(config, K.ramsize, IntVal(134217728))
        found == {i \in 1..Len(RamSizes) : py_eq_int(ram, RamSizes[i])}
        cpu == dict_get(config, K.cpu, IntVal(3))
    IN  (IF found = {} THEN <<>> ELSE <<Step("ram_size", MinOf(found) - 1)>>)
        \o (IF emulator_type = "basilisk"
            THEN <<Step("cpu_type", IF py_eq_int(cpu, 2) THEN 0
                                    ELSE IF py_eq_int(cpu, 4) THEN 2 ELSE 1),
                   setValue("model_id", dict_get(config, K.modelid, IntVal(5)), 0, 255),
                   setChecked("fpu_enabled", dict_get(config, K.fpu, BoolVal(TRUE))),
                   setChecked("jit_fpu", dict_get(config, K.jitfpu, BoolVal(TRUE))),
                   setValue("jit_cache_size", dict_get(config, K.jitcachesize, IntVal(8192)), 0, 65536),
                   setChecked("jit_lazy_flush", dict_get(config, K.jitlazyflush, BoolVal(TRUE))),
                   setChecked("jit_inline", dict_get(config, K.jitinline, BoolVal(TRUE))),
                   setChecked("jit_debug", dict_get(config, K.jitdebug, BoolVal(FALSE)))>>
            ELSE <<>>)
        \o (IF emulator_type = "sheepshaver"
            THEN <<setValue("cpu_clock", dict_get(config, K.cpuclock, IntVal(0)), 0, 10000),
                   setChecked("jit_68k", dict_get(config, K.jit68k, BoolVal(FALSE)))>>
            ELSE <<>>)
        \o <<setChecked("jit_enabled", dict_get(config, K.jit, BoolVal(TRUE)))>>

CpuMemoryTab_save_config(w, config, emulator_type) ==
    set_items(config,
      <<<<K.ramsize, IntVal(RamSizes[w.ram_size + 1])>>>>
      \o (IF emulator_type = "basilisk"
          THEN <<<<K.cpu, IntVal(w.cpu_type + 2)>>,
                 <<K.modelid, IntVal(w.model_id)>>,
                 <<K.fpu, BoolVal(w.fpu_enabled)>>,
                 <<K.jitfpu, BoolVal(w.jit_fpu)>>,
                 <<K.jitcachesize, IntVal(w.jit_cache_size)>>,
                 <<K.jitlazyflush, BoolVal(w.jit_lazy_flush)>>,
                 <<K.jitinline, BoolVal(w.jit_inline)>>,
                 <<K.jitdebug, BoolVal(w.jit_debug)>>>>
          ELSE <<>>)
      \o (IF emulator_type = "sheepshaver"
          THEN <<<<K.cpuclock, IntVal(w.cpu_clock)>>, <<K.jit68k, BoolVal(w.jit_68k)>>>>
          ELSE <<>>)
      \o <<<<K.jit, BoolVal(w.jit_enabled)>>>>)

\* --- InputTab -----------------------------------------------------------
InputTab_load_config(w, config, emulator_type) ==
    <<setValue("kb_type", dict_get(config, K.keyboardtype, IntVal(5)), 0, 255),
      setChecked("keycodes", dict_get(config, K.keycodes, BoolVal(TRUE))),
      setText("keycode_file", dict_get(config, K.keycodefile, StrVal(<<>>))),
      setValue("hotkey", dict_get(config, K.hotkey, IntVal(0)), 0, 255),
      setChecked("swap_opt_cmd", dict_get(config, K.swap_opt_cmd, BoolVal(TRUE))),
      setValue("mouse_wheel_mode", dict_get(config, K.mousewheelmode, IntVal(1)), 0, 3),
      setValue("mouse_wheel_lines", dict_get(config, K.mousewheellines, IntVal(3)), 1, 20),
      setChecked("init_grab", dict_get(config, K.init_grab, BoolVal(FALSE)))>>
    \o (IF emulator_type = "sheepshaver"
        THEN <<setChecked("hard_cursor", dict_get(config, K.hardcursor, BoolVal(FALSE)))>>
        ELSE <<>>)

InputTab_save_config(w, config, emulator_type) ==
    set_items(config,
      <<<<K.keyboardtype, IntVal(w.kb_type)>>,
        <<K.keycodes, BoolVal(w.keycodes)>>,
        <<K.keycodefile, StrVal(w.keycode_file)>>,
        <<K.hotkey, IntVal(w.hotkey)>>,
        <<K.swap_opt_cmd, BoolVal(w.swap_opt_cmd)>>,
        <<K.mousewheelmode, IntVal(w.mouse_wheel_mode)>>,
        <<K.mousewheellines, IntVal(w.mouse_wheel_lines)>>,
        <<K.init_grab, BoolVal(w.init_grab)>>>>
      \o (IF emulator_type = "sheepshaver" THEN <<<<K.hardcursor, BoolVal(w.hard_cursor)>>>> ELSE <<>>))

\* --- SerialTab ----------------------------------------------------------
SerialTab_load_config(w, config) ==
    <<setText("serial_a", dict_get(config, K.seriala, StrVal(T.ttyS0))),
      setText("serial_b", dict_get(config, K.serialb, StrVal(T.ttyS1)))>>

SerialTab_save_config(w, config) ==
    set_items(config, <<<<K.seriala, StrVal(w.serial_a)>>, <<K.serialb, StrVal(w.serial_b)>>>>)

\* --- MiscTab ------------------------------------------------------------
MiscTab_load_config(w, config, emulator_type) ==
    <<setChecked("no_gui", dict_get(config, K.nogui, BoolVal(TRUE))),
      setChecked("no_clip_conversion", dict_get(config, K.noclipconversion, BoolVal(FALSE))),
      setChecked("ignore_segv", dict_get(config, K.ignoresegv, BoolVal(FALSE)))>>
    \o (IF emulator_type = "sheepshaver"
        THEN <<setChecked("ignore_illegal", dict_get(config, K.ignoreillegal, BoolVal(FALSE)))>>
        ELSE <<>>)
    \o <<setChecked("idle_wait", dict_get(config, K.idlewait, BoolVal(TRUE))),
         setValue("year_offset", dict_get(config, K.yearofs, IntVal(0)), -100, 100),
         setValue("day_offset", dict_get(config, K.dayofs, IntVal(0)), -365, 365),
         setValue("name_encoding", dict_get(config, K.name_encoding, IntVal(3)), 0, 10)>>
    \o (IF emulator_type = "basilisk"
        THEN <<setValue("delay", dict_get(config, K.delay, IntVal(0)), 0, 1000)>>
        ELSE <<>>)

MiscTab_save_config(w, config, emulator_type) ==
    set_items(config,
      <<<<K.nogui, BoolVal(w.no_gui)>>,
        <<K.noclipconversion, BoolVal(w.no_clip_conversion)>>,
        <<K.ignoresegv, BoolVal(w.ignore_segv)>>>>
      \o (IF emulator_type = "sheepshaver" THEN <<<<K.ignoreillegal, BoolVal(w.ignore_illegal)>>>> ELSE <<>>)
      \o <<<<K.idlewait, BoolVal(w.idle_wait)>>,
           <<K.yearofs, IntVal(w.year_offset)>>,
           <<K.dayofs, IntVal(w.day_offset)>>,
           <<K.name_encoding, IntVal(w.name_encoding)>>>>
      \o (IF emulator_type = "basilisk" THEN <<<<K.delay, IntVal(w.delay)>>>> ELSE <<>>))

\* --- EmulatorTab --------------------------------------------------------
\* EmulatorTab.load_config: keep the dict, then load the eight tabs in
\* order; an exception leaves the widgets set so far as they are and the
\* rest untouched.  The result is [exc, w].
EmulatorTab_load_config(w, config, emulator_type) ==
    run_steps([w EXCEPT !.config = config],
              DrivesTab_load_config(w, config)
              \o GraphicsTab_load_config(w, config)
              \o SoundTab_load_config(w, config)
              \o NetworkTab_load_config(w, config, emulator_type)
              \o CpuMemoryTab_load_config(w, config, emulator_type)
              \o InputTab_load_config(w, config, emulator_type)
              \o SerialTab_load_config(w, config)
              \o MiscTab_load_config(w, config, emulator_type))

\* A save_config that would fill the dict load_config has kept instead of
\* a new one.
EmulatorTab_save_config_onto_loaded(w, emulator_type) ==
    MiscTab_save_config(w,
      SerialTab_save_config(w,
        InputTab_save_config(w,
          CpuMemoryTab_save_config(w,
            NetworkTab_save_config(w,
              SoundTab_save_config(w,
                GraphicsTab_save_config(w,
                  DrivesTab_save_config(w, w.config),
                  emulator_type)),
              emulator_type),
            emulator_type),
          emulator_type)),
      emulator_type)

\* EmulatorTab.save_config: a new dict filled by the eight tabs in order.
EmulatorTab_save_config(w, emulator_type) ==
    MiscTab_save_config(w,
      SerialTab_save_config(w,
        InputTab_save_config(w,
          CpuMemoryTab_save_config(w,
            NetworkTab_save_config(w,
              SoundTab_save_config(w,
                GraphicsTab_save_config(w,
                  DrivesTab_save_config(w, <<>>),
                  emulator_type)),
              emulator_type),
            emulator_type),
          emulator_type)),
      emulator_type)

\* --- PrefsEditor --------------------------------------------------------
\* The two configuration files the settings can name.
BasiliskCfg == "basilisk.cfg"
SheepshaverCfg == "sheepshaver.cfg"
Paths == {BasiliskCfg, SheepshaverCfg}
CfgPath(e) == IF e = "basilisk" THEN BasiliskCfg ELSE SheepshaverCfg

\* The executables the settings can name.
BasiliskExe == "BasiliskII"
SheepshaverExe == "SheepShaver"

\* No process started.
NoProcess == <<>>

\* No message box shown yet.
NoMessage == [kind |-> "none", title |-> "none", cause |-> "none"]

\* ------------------------------------------------------------------------
\* A caller of ConfigParser on one path
\* ------------------------------------------------------------------------
StoreInit ==
    /\ \E f \in {NoFile} \cup {File(t) : t \in InputTexts} :
          fs = [p \in Paths |-> IF p = BasiliskCfg THEN f ELSE NoFile]
    /\ writable = [p \in Paths |-> TRUE]
    /\ doc = <<>>
    /\ origin = "none"
    /\ saved = [origin |-> "none", doc |-> <<>>]
    /\ lastOp = "none"
    /\ exc = "none"
    /\ settings = [e \in Emus |-> ""]
    /\ form = [e \in Emus |-> InitialForm]
    /\ msg = NoMessage
    /\ io = [p \in Paths |-> "none"]
    /\ images = {}
    /\ tab = "basilisk"
    /\ exe = [e \in Emus |-> ""]
    /\ programs = {}
    /\ proc = NoProcess

\* config = ConfigParser.parse(path)
StoreParse ==
    \E r \in {ConfigParser_parse(fs[BasiliskCfg])} :
        /\ exc' = r.exc
        /\ lastOp' = "parse"
        /\ doc' = IF r.exc = "none" THEN r.ret ELSE doc
        /\ origin' = IF r.exc # "none" THEN origin
                     ELSE IF fs[BasiliskCfg].exists THEN "parsed" ELSE "parsed_missing"
        /\ UNCHANGED <<fs, writable, saved, settings, form, msg, io, images, tab, exe, programs, proc>>

\* The caller builds a dict of its own when there is no file yet.
StoreBuild ==
    /\ origin = "none"
    /\ ~fs[BasiliskCfg].exists
    /\ \E d \in BuiltDocs : doc' = d
    /\ origin' = "built"
    /\ UNCHANGED <<fs, writable, saved, lastOp, exc, settings, form, msg, io, images, tab, exe, programs, proc>>

\* ConfigParser.save(path, config) on a path that can be written.
StoreSave ==
    /\ origin # "none"
    /\ writable[BasiliskCfg]
    /\ lastOp' = "save"
    /\ fs' = [fs EXCEPT ![BasiliskCfg] = File(ConfigParser_save(doc))]
    /\ saved' = [origin |-> origin, doc |-> doc]
    /\ exc' = "none"
    /\ UNCHANGED <<writable, doc, origin, settings, form, msg, io, images, tab, exe, programs, proc>>

StoreNext == StoreParse \/ StoreBuild \/ StoreSave

SpecStore == StoreInit /\ [][StoreNext]_vars

\* ------------------------------------------------------------------------
\* Properties of ConfigParser (checked under SpecStore)
\* ------------------------------------------------------------------------
StoreFile == fs[BasiliskCfg]

\* The scalar key/value pairs of a dict, as a set, and in iteration order.
scalars_of(d) == {d[i] : i \in {j \in 1..Len(d) : d[j][1] # K_disks}}
IsScalarItem(item) == item[1] # K_disks
scalar_items(d) == SelectSeq(d, IsScalarItem)

\* The stripped lines of a text, blank ones included.
StrippedLines(text) == [i \in 1..Len(readlines(text)) |-> strip(readlines(text)[i])]
IsDiskLine(l) == l # <<>> /\ line_key(l) = K_disk

\* Indices of the non-blank lines that are the last to carry their key,
\* for keys other than 'disk' and 'disks'.
LastScalarLines(L) ==
    {i \in 1..Len(L) :
        /\ L[i] # <<>>
        /\ line_key(L[i]) \notin {K_disk, K_disks}
        /\ \A j \in (i + 1)..Len(L) : L[j] = <<>> \/ line_key(L[j]) # line_key(L[i])}

Missing == [t |-> "missing"]

\* C1: a dict returned by parse on an existing file, saved and parsed again,
\* comes back with the same disk sequence and the same scalar key/value
\* pairs (value and type).
C1_RoundTrip ==
    (lastOp = "parse" /\ exc = "none" /\ saved.origin = "parsed")
        => /\ disks_of(doc) = disks_of(saved.doc)
           /\ scalars_of(doc) = scalars_of(saved.doc)

C1_Witness ==
    /\ lastOp = "parse" /\ exc = "none" /\ saved.origin = "parsed"
    /\ Len(disks_of(doc)) >= 2
    /\ \E item \in scalars_of(doc) : item[2].t = "int"

\* What the format description says a line splits into: the key is the text
\* before the first whitespace run, the value the text after that run.
FirstWs(line) == MinOf({i \in 1..Len(line) : line[i] \in Whitespace})
SpecKey(line) ==
    IF \E i \in 1..Len(line) : line[i] \in Whitespace
    THEN SubSeq(line, 1, FirstWs(line) - 1) ELSE line
SpecValue(line) ==
    IF \E i \in 1..Len(line) : line[i] \in Whitespace
    THEN SubSeq(line, MinOf({i \in FirstWs(line)..Len(line) : line[i] \notin Whitespace}), Len(line))
    ELSE <<>>

\* C3: parse splits every non-blank stripped line at its first whitespace
\* run (one space, several spaces or a tab) into key and rest-of-line value.
C3_LineSplitting ==
    (lastOp = "parse" /\ StoreFile.exists)
        => \A i \in 1..Len(StrippedLines(StoreFile.text)) :
              LET l == StrippedLines(StoreFile.text)[i]
              IN  l # <<>> => line_key(l) = SpecKey(l) /\ line_value(l) = SpecValue(l)

\* The type the precedence boolean > integer > float > string gives a value.
SpecType(value) ==
    IF lower(value) = S_true THEN BoolVal(TRUE)
    ELSE IF lower(value) = S_false THEN BoolVal(FALSE)
    ELSE IF IsDecimal(value) THEN IntVal(DecimalValue(value))
    ELSE IF float_parse(value).ok THEN float_parse(value).val
    ELSE StrVal(value)

\* C4: parse types the value of every non-disk line by the precedence
\* boolean > integer > float > string; a value that is none of the first
\* three stays a string.
C4_TypeInference ==
    (lastOp = "parse" /\ StoreFile.exists)
        => /\ exc = "none"
           /\ \A i \in LastScalarLines(StrippedLines(StoreFile.text)) :
                 LET l == StrippedLines(StoreFile.text)[i]
                 IN  dict_get(doc, line_key(l), Missing) = SpecType(line_value(l))

\* C5: parse of a path that does not exist raises nothing and returns the
\* dict that parse of an empty file returns: no scalar entry and an empty
\* disk sequence.
C5_MissingFile ==
    (lastOp = "parse" /\ origin = "parsed_missing")
        => /\ exc = "none"
           /\ scalars_of(doc) = {}
           /\ dict_get(doc, K_disks, Missing) = ListVal(<<>>)
           /\ doc = ConfigParser_parse(File(<<>>)).ret

C7_WriteOrder ==
    (lastOp = "save" /\ exc = "none")
        => LET L == readlines(StoreFile.text)
               ds == disks_of(saved.doc)
               items == scalar_items(saved.doc)
           IN  /\ Len(L) = Len(ds) + Len(items)
               /\ \A i \in 1..Len(ds) : L[i] = K_disk \o <<" ">> \o ds[i] \o <<"\n">>
               /\ \A j \in 1..Len(items) :
                     L[Len(ds) + j] = items[j][1] \o <<" ">> \o format_value(items[j][2]) \o <<"\n">>
               /\ \A i, j \in 1..Len(L) :
                     (i < j /\ line_key(strip(L[j])) = K_disk) => line_key(strip(L[i])) = K_disk
               /\ \A i \in 1..Len(L) : line_key(strip(L[i])) # K_disks

C7_Witness ==
    /\ lastOp = "save" /\ exc = "none"
    /\ Len(disks_of(saved.doc)) >= 2
    /\ Len(scalar_items(saved.doc)) >= 1
    /\ saved.doc[1][1] # K_disks

\* C8: save writes every boolean as lowercase true or false, and parse
\* reads a value that is true or false in any letter case as the boolean of
\* that truth value.
C8_BooleanCanonical ==
    /\ (lastOp = "save" /\ exc = "none")
          => \A item \in scalars_of(saved.doc) :
                item[2].t = "bool"
                   => \E i \in 1..Len(readlines(StoreFile.text)) :
                         readlines(StoreFile.text)[i] =
                            item[1] \o <<" ">> \o (IF item[2].b THEN S_true ELSE S_false) \o <<"\n">>
    /\ (lastOp = "parse" /\ exc = "none" /\ StoreFile.exists)
          => \A i \in LastScalarLines(StrippedLines(StoreFile.text)) :
                LET l == StrippedLines(StoreFile.text)[i]
                IN  lower(line_value(l)) \in {S_true, S_false}
                       => dict_get(doc, line_key(l), Missing) = BoolVal(lower(line_value(l)) = S_true)

C8_Witness ==
    /\ lastOp = "parse" /\ exc = "none" /\ StoreFile.exists
    /\ \E i \in LastScalarLines(StrippedLines(StoreFile.text)) :
          /\ line_value(StrippedLines(StoreFile.text)[i]) = V_TRUE
          /\ dict_get(doc, line_key(StrippedLines(StoreFile.text)[i]), Missing) = BoolVal(TRUE)

\* C9: parse raises for no content of an existing file; a line with a key
\* and no value gives that key the empty string.
C9_NeverRaises ==
    (lastOp = "parse" /\ StoreFile.exists)
        => /\ exc = "none"
           /\ \A i \in LastScalarLines(StrippedLines(StoreFile.text)) :
                 LET l == StrippedLines(StoreFile.text)[i]
                 IN  Len(split_space_once(l)) = 1 => dict_get(doc, l, Missing) = StrVal(<<>>)

\* C16: for every existing file the 'disks' field of the dict parse returns
\* is the sequence of the values of the file's 'disk' lines in file order,
\* also when a line of the file has the key 'disks'; the value of such a
\* line is kept nowhere in the dict, and save writes no line with the key
\* 'disks'.
C16_ReservedField ==
    /\ (lastOp = "parse" /\ exc = "none" /\ StoreFile.exists)
          => LET L == StrippedLines(StoreFile.text)
                 D == SelectSeq(L, IsDiskLine)
             IN  /\ dict_get(doc, K_disks, Missing) = ListVal([i \in 1..Len(D) |-> line_value(D[i])])
                 /\ Cardinality({i \in 1..Len(doc) : doc[i][1] = K_disks}) = 1
                 /\ \A i \in 1..Len(doc) : doc[i][2].t = "list" <=> doc[i][1] = K_disks
    /\ (lastOp = "save" /\ exc = "none")
          => \A i \in 1..Len(StrippedLines(StoreFile.text)) :
                line_key(StrippedLines(StoreFile.text)[i]) # K_disks

\* A file with a 'disks' line and a 'disk' line has been parsed.
C16_Witness ==
    /\ lastOp = "parse" /\ exc = "none" /\ StoreFile.exists
    /\ \E i \in 1..Len(StrippedLines(StoreFile.text)) :
          line_key(StrippedLines(StoreFile.text)[i]) = K_disks
    /\ disks_of(doc) # <<>>

\* ------------------------------------------------------------------------
\* The application: PrefsEditor and the buttons of the Drives tab
\* ------------------------------------------------------------------------
\* A path with a blank at each end, and a path holding a line break.
V_t == <<" ", "/", "t", ".", "i", "m", "g", " ">>
V_nl == <<"/", "n", "\n", "x">>

DiskLine(path) == K_disk \o <<" ">> \o path

\* A key of the emulators' preferences that no widget of the editor is
\* bound to.
K_cdrom == <<"c", "d", "r", "o", "m">>

\* What the program finds when it starts: the config paths kept in
\* QSettings, the config files, whether each can be opened for writing,
\* the image files the file dialog can return, the executable paths kept
\* in QSettings and the executables that exist.
Installations ==
    {[settings |-> [basilisk |-> BasiliskCfg, sheepshaver |-> SheepshaverCfg],
      fs |-> [p \in Paths |->
                IF p = BasiliskCfg
                THEN File(join_lines(<<DiskLine(V_a), DiskLine(V_b), DiskLine(V_c),
                                       K_cdrom \o <<" ">> \o V_c,
                                       K.gfxaccel \o <<" ">> \o S_true>>))
                ELSE File(join_lines(<<DiskLine(V_b)>>))],
      writable |-> [p \in Paths |-> TRUE],
      images |-> {V_a, V_b, V_c},
      exe |-> [basilisk |-> BasiliskExe, sheepshaver |-> SheepshaverExe],
      programs |-> {BasiliskExe, SheepshaverExe}],
     [settings |-> [basilisk |-> BasiliskCfg, sheepshaver |-> ""],
      fs |-> [p \in Paths |->
                IF p = BasiliskCfg
                THEN File(join_lines(<<DiskLine(V_a), K.extfs \o <<" ">> \o V_MyFiles,
                                       K.jit \o <<" ">> \o S_false,
                                       K.nogui \o <<" ">> \o S_false>>))
                ELSE NoFile],
      writable |-> [p \in Paths |-> TRUE],
      images |-> {V_t, V_nl},
      exe |-> [basilisk |-> BasiliskExe, sheepshaver |-> SheepshaverExe],
      programs |-> {BasiliskExe, SheepshaverExe}],
     [settings |-> [basilisk |-> BasiliskCfg, sheepshaver |-> SheepshaverCfg],
      fs |-> [p \in Paths |-> NoFile],
      writable |-> [p \in Paths |-> p # BasiliskCfg],
      images |-> {V_c},
      exe |-> [basilisk |-> BasiliskExe, sheepshaver |-> SheepshaverExe],
      programs |-> {BasiliskExe, SheepshaverExe}],
     [settings |-> [basilisk |-> BasiliskCfg, sheepshaver |-> SheepshaverCfg],
      fs |-> [p \in Paths |->
                IF p = BasiliskCfg THEN File(join_lines(<<DiskLine(V_a)>>))
                ELSE File(join_lines(<<DiskLine(V_b)>>))],
      writable |-> [p \in Paths |-> p # SheepshaverCfg],
      images |-> {V_t},
      exe |-> [basilisk |-> "", sheepshaver |-> SheepshaverExe],
      programs |-> {BasiliskExe}],
     [settings |-> [basilisk |-> BasiliskCfg, sheepshaver |-> ""],
      fs |-> [p \in Paths |->
                IF p = BasiliskCfg THEN File(join_lines(<<K.yearofs \o <<" ">> \o V_neg5>>))
                ELSE NoFile],
      writable |-> [p \in Paths |-> TRUE],
      images |-> {},
      exe |-> [basilisk |-> BasiliskExe, sheepshaver |-> ""],
      programs |-> {BasiliskExe}],
     [settings |-> [basilisk |-> "", sheepshaver |-> SheepshaverCfg],
      fs |-> [p \in Paths |->
                IF p = SheepshaverCfg THEN File(join_lines(<<DiskLine(V_b), DiskLine(V_a)>>))
                ELSE NoFile],
      writable |-> [p \in Paths |-> TRUE],
      images |-> {},
      exe |-> [basilisk |-> BasiliskExe, sheepshaver |-> SheepshaverExe],
      programs |-> {SheepshaverExe}]}

\* QListWidget.takeItem(row) and insertItem(row, item); rows count from 0.
takeItem(l, row) == SubSeq(l, 1, row) \o SubSeq(l, row + 2, Len(l))
insertItem(l, row, item) == SubSeq(l, 1, row) \o <<item>> \o SubSeq(l, row + 1, Len(l))

\* A save that would swallow the error of a failed open or write.
ConfigParser_save_to_swallowing(file, config, can_open, can_write) ==
    IF ~can_open THEN [exc |-> "none", file |-> file]
    ELSE IF ~can_write THEN [exc |-> "none", file |-> File(<<>>)]
    ELSE [exc |-> "none", file |-> File(ConfigParser_save(config))]

\* A save that would open the file for appending.
ConfigParser_save_to_appending(file, config, can_open, can_write) ==
    IF ~can_open THEN [exc |-> "PermissionError", file |-> file]
    ELSE IF ~can_write THEN [exc |-> "OSError", file |-> file]
    ELSE [exc |-> "none",
          file |-> File((IF file.exists THEN file.text ELSE <<>>) \o ConfigParser_save(config))]

\* What open(filepath, 'w') and the writes of ConfigParser.save do to the
\* file: [exc, file].  save has no handler, so the error of a failed open
\* or write is the error of the call.  A failed open leaves the file as it
\* is; a failed write leaves the file open() has truncated.
ConfigParser_save_to(file, config, can_open, can_write) ==
    IF ~can_open THEN [exc |-> "PermissionError", file |-> file]
    ELSE IF ~can_write THEN [exc |-> "OSError", file |-> File(<<>>)]
    ELSE [exc |-> "none", file |-> File(ConfigParser_save(config))]

\* One emulator's part of load_configs on the forms f: [exc, form].
load_one(f, files, cfg, e) ==
    LET Loaded(l) == [exc |-> l.exc, form |-> [f EXCEPT ![e] = l.w]]
        Parsed(r) == IF r.exc # "none" THEN [exc |-> r.exc, form |-> f]
                     ELSE Loaded(EmulatorTab_load_config(f[e], r.ret, e))
    IN  IF cfg[e] # "" /\ files[cfg[e]].exists
        THEN Parsed(ConfigParser_parse(files[cfg[e]]))
        ELSE [exc |-> "none", form |-> f]

\* PrefsEditor.load_configs on the forms f: Basilisk, then Sheepshaver;
\* an exception ends the call where it is raised.
load_configs_on(f, files, cfg) ==
    LET Then(b) == IF b.exc # "none" THEN b ELSE load_one(b.form, files, cfg, "sheepshaver")
    IN  Then(load_one(f, files, cfg, "basilisk"))

\* PrefsEditor.__init__ in each installation: the widgets of init_ui after
\* load_configs.  An exception of load_configs here ends the program
\* before it shows a window, so such an installation starts no behaviour.
Constructed ==
    {[inst |-> i, loaded |-> load_configs_on([e \in Emus |-> InitialForm], i.fs, i.settings)]
        : i \in Installations}

\* The state after PrefsEditor.__init__; the window opens on the
\* Basilisk tab.
Init ==
    /\ \E c \in Constructed :
          /\ c.loaded.exc = "none"
          /\ settings = c.inst.settings
          /\ fs = c.inst.fs
          /\ writable = c.inst.writable
          /\ images = c.inst.images
          /\ exe = c.inst.exe
          /\ programs = c.inst.programs
          /\ form = c.loaded.form
    /\ tab = "basilisk"
    /\ doc = <<>>
    /\ origin = "none"
    /\ saved = [origin |-> "none", doc |-> <<>>]
    /\ lastOp = "init"
    /\ exc = "none"
    /\ msg = NoMessage
    /\ io = [p \in Paths |-> "none"]
    /\ proc = NoProcess

UnchangedStore == UNCHANGED <<doc, origin, saved, writable, settings, images, exe, programs>>

\* The user brings the tab of emulator e to the front.  A session does it
\* first or not at all.
select_tab(e) ==
    /\ lastOp = "init"
    /\ tab # e
    /\ tab' = e
    /\ UNCHANGED <<fs, form, lastOp, exc, msg, io, proc>>
    /\ UnchangedStore

\* A button of the Drives tab in front has run and left the forms as f.
DrivesTabDone(f, e) ==
    /\ form' = f
    /\ exc' = e
    /\ lastOp' = "drives_tab"
    /\ msg' = NoMessage
    /\ io' = [p \in Paths |-> "none"]
    /\ proc' = NoProcess
    /\ UNCHANGED <<fs, tab>>
    /\ UnchangedStore

\* DrivesTab.add_disk: the dialog returns path, <<>> when cancelled.  The
\* user picks an image that is not in the list yet.
add_disk(path) ==
    /\ path \notin Range(form[tab].disk_list)
    /\ DrivesTabDone(IF path # <<>>
                     THEN [form EXCEPT ![tab].disk_list = Append(@, path)]
                     ELSE form, "none")

\* The user clicks the entry at row of the disk list.
select_disk(row) ==
    /\ row < Len(form[tab].disk_list)
    /\ form[tab].disk_row # row
    /\ DrivesTabDone([form EXCEPT ![tab].disk_row = row], "none")

\* DrivesTab.remove_disk.  Qt makes the entry after the removed one
\* current, or the one before it when the last entry is removed.
remove_disk ==
    LET row == form[tab].disk_row
        l == form[tab].disk_list
    IN  DrivesTabDone(IF row >= 0
                      THEN [form EXCEPT ![tab].disk_list = takeItem(l, row),
                                        ![tab].disk_row = IF row < Len(l) - 1 THEN row ELSE row - 1]
                      ELSE form, "none")

\* DrivesTab.move_up on the widgets w: the outcomes [w, exc].
DrivesTab_move_up(w) ==
    LET row == w.disk_row
        l == w.disk_list
    IN  IF row > 0
        THEN {[w |-> [w EXCEPT !.disk_list = insertItem(takeItem(l, row), row - 1, l[row + 1]),
                               !.disk_row = row - 1],
               exc |-> "none"]}
        ELSE {[w |-> w, exc |-> "none"]}

\* DrivesTab.move_down on the widgets w: the outcomes [w, exc].  With no
\* current row (row = -1) and a list that is not empty the guard holds:
\* takeItem(-1) returns None, and insertItem(0, None) either inserts
\* nothing, after which row 0 becomes current, or raises TypeError,
\* depending on the Qt binding in use.
DrivesTab_move_down(w) ==
    LET row == w.disk_row
        l == w.disk_list
    IN  IF row < Len(l) - 1
        THEN IF row >= 0
             THEN {[w |-> [w EXCEPT !.disk_list = insertItem(takeItem(l, row), row + 1, l[row + 1]),
                                    !.disk_row = row + 1],
                    exc |-> "none"]}
             ELSE {[w |-> [w EXCEPT !.disk_row = 0], exc |-> "none"],
                   [w |-> w, exc |-> "TypeError"]}
        ELSE {[w |-> w, exc |-> "none"]}

\* The Move Up and Move Down buttons of the tab in front.
move_up ==
    \E o \in DrivesTab_move_up(form[tab]) : DrivesTabDone([form EXCEPT ![tab] = o.w], o.exc)

move_down ==
    \E o \in DrivesTab_move_down(form[tab]) : DrivesTabDone([form EXCEPT ![tab] = o.w], o.exc)

\* The config file of emulator e that load_configs would parse: its path
\* is set and os.path.exists is True for it.
Reloadable(cfg, files, e) == cfg[e] # "" /\ files[cfg[e]].exists

\* PrefsEditor.load_configs from the Reload action.  io records the paths
\* handed to ConfigParser.parse: the Basilisk path when it is set and
\* exists, and the Sheepshaver path when it is set and exists and the
\* Basilisk part has not raised.
load_configs ==
    /\ \E loaded \in {load_configs_on(form, fs, settings)} :
          form' = loaded.form /\ exc' = loaded.exc
    /\ \E first \in {load_one(form, fs, settings, "basilisk").exc} :
          io' = [p \in Paths |->
                   IF \/ Reloadable(settings, fs, "basilisk") /\ p = settings["basilisk"]
                      \/ /\ first = "none"
                         /\ Reloadable(settings, fs, "sheepshaver")
                         /\ p = settings["sheepshaver"]
                   THEN "parsed" ELSE "none"]
    /\ lastOp' = "load_configs"
    /\ msg' = NoMessage
    /\ proc' = NoProcess
    /\ UNCHANGED <<fs, tab>>
    /\ UnchangedStore

\* A Save All that would write the Sheepshaver file before the Basilisk
\* file.
save_all_configs_sheepshaver_first(can_write) ==
    LET pb == settings["basilisk"]
        ps == settings["sheepshaver"]
        outcome(p) == IF ~writable[p] THEN "open_failed"
                      ELSE IF ~can_write THEN "write_failed" ELSE "ok"
        Saved(files, e) ==
            ConfigParser_save_to(files[settings[e]], EmulatorTab_save_config(form[e], e),
                                 writable[settings[e]], can_write)
        Done(excs, excb, fs2) ==
            /\ fs' = fs2
            /\ io' = [p \in Paths |->
                        IF p = ps THEN outcome(p)
                        ELSE IF p = pb /\ excs = "none" THEN outcome(p)
                        ELSE "none"]
            /\ msg' = IF excs # "none" THEN [kind |-> "critical", title |-> "Error", cause |-> excs]
                      ELSE IF excb # "none" THEN [kind |-> "critical", title |-> "Error", cause |-> excb]
                      ELSE [kind |-> "information", title |-> "Save", cause |-> "none"]
            /\ exc' = "none"
            /\ lastOp' = "save_all_configs"
            /\ proc' = NoProcess
            /\ UNCHANGED <<form, tab>>
            /\ UnchangedStore
        Basilisk(excs, fs1, rb) ==
            IF excs = "none" /\ pb # ""
            THEN Done(excs, rb.exc, [fs1 EXCEPT ![pb] = rb.file])
            ELSE Done(excs, "none", fs1)
        AfterSheepshaver(excs, fs1) == Basilisk(excs, fs1, Saved(fs1, "basilisk"))
        Sheepshaver(rs) ==
            AfterSheepshaver(IF ps # "" THEN rs.exc ELSE "none",
                             IF ps # "" THEN [fs EXCEPT ![ps] = rs.file] ELSE fs)
    IN  Sheepshaver(Saved(fs, "sheepshaver"))

\* PrefsEditor.save_all_configs.  can_write says whether the writes of
\* this call succeed once a file is open (FALSE: the disk is full).
save_all_configs(can_write) ==
    LET pb == settings["basilisk"]
        ps == settings["sheepshaver"]
        outcome(p) == IF ~writable[p] THEN "open_failed"
                      ELSE IF ~can_write THEN "write_failed" ELSE "ok"
        Saved(files, e) ==
            ConfigParser_save_to(files[settings[e]], EmulatorTab_save_config(form[e], e),
                                 writable[settings[e]], can_write)
        Done(excb, excs, fs2) ==
            /\ fs' = fs2
            /\ io' = [p \in Paths |->
                        IF p = pb THEN outcome(p)
                        ELSE IF p = ps /\ excb = "none" THEN outcome(p)
                        ELSE "none"]
            /\ msg' = IF excb # "none" THEN [kind |-> "critical", title |-> "Error", cause |-> excb]
                      ELSE IF excs # "none" THEN [kind |-> "critical", title |-> "Error", cause |-> excs]
                      ELSE [kind |-> "information", title |-> "Save", cause |-> "none"]
            /\ exc' = "none"
            /\ lastOp' = "save_all_configs"
            /\ proc' = NoProcess
            /\ UNCHANGED <<form, tab>>
            /\ UnchangedStore
        Sheepshaver(excb, fs1, rs) ==
            IF excb = "none" /\ ps # ""
            THEN Done(excb, rs.exc, [fs1 EXCEPT ![ps] = rs.file])
            ELSE Done(excb, "none", fs1)
        AfterBasilisk(excb, fs1) == Sheepshaver(excb, fs1, Saved(fs1, "sheepshaver"))
        Basilisk(rb) ==
            AfterBasilisk(IF pb # "" THEN rb.exc ELSE "none",
                          IF pb # "" THEN [fs EXCEPT ![pb] = rb.file] ELSE fs)
    IN  Basilisk(Saved(fs, "basilisk"))

\* The toolbar actions launch_basilisk and launch_sheepshaver.
LaunchOp(e) == IF e = "basilisk" THEN "launch_basilisk" ELSE "launch_sheepshaver"

\* A launch that would start the emulator although its save has failed.
launch_despite_failed_save(emulator_type, path, cfg, existing) ==
    LET Done(fs2, outcome, message, started) ==
            /\ fs' = fs2
            /\ io' = [p \in Paths |-> IF p = cfg THEN outcome ELSE "none"]
            /\ msg' = message
            /\ proc' = started
            /\ exc' = "none"
            /\ lastOp' = LaunchOp(emulator_type)
            /\ UNCHANGED <<form, tab>>
            /\ UnchangedStore
        Popen(fs2, outcome, args) ==
            \E can_spawn \in BOOLEAN :
                IF can_spawn THEN Done(fs2, outcome, NoMessage, args)
                ELSE Done(fs2, outcome, [kind |-> "critical", title |-> "Error", cause |-> "OSError"],
                          NoProcess)
        Saved(r) ==
            Popen([fs EXCEPT ![cfg] = r.file],
                  IF r.exc = "PermissionError" THEN "open_failed"
                  ELSE IF r.exc = "OSError" THEN "write_failed" ELSE "ok",
                  <<path, "--config", cfg>>)
        Save(config) ==
            \E can_write \in (IF writable[cfg] THEN BOOLEAN ELSE {TRUE}) :
                Saved(ConfigParser_save_to(fs[cfg], config, writable[cfg], can_write))
    IN  IF path = ""
        THEN Done(fs, "none", [kind |-> "warning", title |-> "Launch", cause |-> "unset"], NoProcess)
        ELSE IF path \notin existing
        THEN Done(fs, "none", [kind |-> "warning", title |-> "Launch", cause |-> "missing"], NoProcess)
        ELSE IF cfg # ""
        THEN Save(EmulatorTab_save_config(form[emulator_type], emulator_type))
        ELSE Popen(fs, "none", <<path>>)

\* PrefsEditor.launch_emulator once it has read the executable path and
\* the config path cfg from the settings; existing are the executables
\* that exist.  The writes of the save succeed once the file is open or
\* fail (can_write: the disk is full), and subprocess.Popen succeeds or
\* fails (can_spawn).  An exception of the save or of Popen is caught and
\* shown; the save's exception skips Popen.
launch(emulator_type, path, cfg, existing) ==
    LET Done(fs2, outcome, message, started) ==
            /\ fs' = fs2
            /\ io' = [p \in Paths |-> IF p = cfg THEN outcome ELSE "none"]
            /\ msg' = message
            /\ proc' = started
            /\ exc' = "none"
            /\ lastOp' = LaunchOp(emulator_type)
            /\ UNCHANGED <<form, tab>>
            /\ UnchangedStore
        Popen(fs2, outcome, args) ==
            \E can_spawn \in BOOLEAN :
                IF can_spawn THEN Done(fs2, outcome, NoMessage, args)
                ELSE Done(fs2, outcome, [kind |-> "critical", title |-> "Error", cause |-> "OSError"],
                          NoProcess)
        Saved(r) ==
            IF r.exc = "none" THEN Popen([fs EXCEPT ![cfg] = r.file], "ok", <<path, "--config", cfg>>)
            ELSE Done([fs EXCEPT ![cfg] = r.file],
                      IF r.exc = "PermissionError" THEN "open_failed" ELSE "write_failed",
                      [kind |-> "critical", title |-> "Error", cause |-> r.exc], NoProcess)
        Save(config) ==
            \E can_write \in (IF writable[cfg] THEN BOOLEAN ELSE {TRUE}) :
                Saved(ConfigParser_save_to(fs[cfg], config, writable[cfg], can_write))
    IN  IF path = ""
        THEN Done(fs, "none", [kind |-> "warning", title |-> "Launch", cause |-> "unset"], NoProcess)
        ELSE IF path \notin existing
        THEN Done(fs, "none", [kind |-> "warning", title |-> "Launch", cause |-> "missing"], NoProcess)
        ELSE IF cfg # ""
        THEN Save(EmulatorTab_save_config(form[emulator_type], emulator_type))
        ELSE Popen(fs, "none", <<path>>)

Other(e) == IF e = "basilisk" THEN "sheepshaver" ELSE "basilisk"

\* A launch that would not test whether the executable exists.
launch_emulator_unchecked(emulator_type) ==
    launch(emulator_type, exe[emulator_type], settings[emulator_type], {exe[emulator_type]})

\* A launch that would read the config path of the other emulator.
launch_emulator_other_cfg(emulator_type) ==
    launch(emulator_type, exe[emulator_type], settings[Other(emulator_type)], programs)

\* PrefsEditor.launch_emulator from a toolbar button: the paths are the
\* ones the settings hold for the emulator type.
launch_emulator(emulator_type) ==
    launch(emulator_type, exe[emulator_type], settings[emulator_type], programs)

Next ==
    \/ \E e \in Emus : select_tab(e)
    \/ \E path \in images \cup {<<>>} : add_disk(path)
    \/ \E row \in 0..2 : select_disk(row)
    \/ remove_disk
    \/ move_up
    \/ move_down
    \/ \E can_write \in BOOLEAN : save_all_configs(can_write)
    \/ \E e \in Emus : launch_emulator(e)

Spec == Init /\ [][Next]_vars

\* ------------------------------------------------------------------------
\* Claims about the application
\* ------------------------------------------------------------------------
\* save_all_configs has just written the file of emulator e.
JustSaved(e) ==
    /\ lastOp = "save_all_configs"
    /\ settings[e] # ""
    /\ io[settings[e]] = "ok"

\* The result of parsing the file of emulator e as it is now.
Reparsed(e) == ConfigParser_parse(fs[settings[e]])

HasLineBreak(s) == "\n" \in Range(s)

\* s without its trailing whitespace.
rstrip(s) ==
    LET keep == {i \in 1..Len(s) : s[i] \notin Whitespace}
    IN  IF keep = {} THEN <<>> ELSE SubSeq(s, 1, MaxOf(keep))

\* C2: after a load and any add_disk, remove_disk, move_up and
\* move_down, the saved file parses to a disk sequence equal, entry by
\* entry and in order, to the list the Drives tab shows at the save.
C2_DiskOrder ==
    \A e \in Emus :
        JustSaved(e) => \A r \in {Reparsed(e)} :
                            /\ r.exc = "none"
                            /\ disks_of(r.ret) = form[e].disk_list

\* What save and parse give instead: when no entry of the list holds a line
\* break, a disk sequence of the same length and order as the list, each
\* entry without its trailing whitespace.
C2_DiskOrderStripped ==
    \A e \in Emus :
        (JustSaved(e) /\ \A i \in 1..Len(form[e].disk_list) : ~HasLineBreak(form[e].disk_list[i]))
            => \A r \in {Reparsed(e)} :
                  /\ r.exc = "none"
                  /\ Len(disks_of(r.ret)) = Len(form[e].disk_list)
                  /\ \A i \in 1..Len(form[e].disk_list) :
                        disks_of(r.ret)[i] = rstrip(form[e].disk_list[i])

\* [A, B, C] was loaded, reordered to [C, A, B] and saved.
C2_Witness ==
    /\ JustSaved("basilisk")
    /\ form["basilisk"].config # <<>>
    /\ disks_of(form["basilisk"].config) = <<V_a, V_b, V_c>>
    /\ form["basilisk"].disk_list = <<V_c, V_a, V_b>>
    /\ disks_of(Reparsed("basilisk").ret) = <<V_c, V_a, V_b>>

\* The error a failed save raises.
SaveError(outcome) == IF outcome = "open_failed" THEN "PermissionError" ELSE "OSError"

\* C10: when a save of save_all_configs cannot open or write its path, the
\* error reaches save_all_configs, which shows the error dialog naming the
\* cause, and the collect of each form after the call returns the document
\* it returned before the call.
C10_SaveFailure ==
    [][\A p \in Paths :
          (lastOp' = "save_all_configs" /\ io'[p] \in {"open_failed", "write_failed"})
              => /\ msg'.kind = "critical"
                 /\ msg'.cause = SaveError(io'[p])
                 /\ \A e \in Emus :
                       EmulatorTab_save_config(form'[e], e) = EmulatorTab_save_config(form[e], e)]_vars

\* A save of a form with disks has failed at open().
C10_Witness ==
    /\ lastOp = "save_all_configs"
    /\ io[BasiliskCfg] = "open_failed"
    /\ msg.kind = "critical"
    /\ msg.cause = "PermissionError"
    /\ form["basilisk"].disk_list # <<>>

\* The number of entries of l equal to x.
CountOf(l, x) == Cardinality({i \in 1..Len(l) : l[i] = x})

\* l2 is l with the entries at rows row and row2 exchanged; rows count from 0.
Swapped(l, l2, row, row2) ==
    /\ row >= 0 /\ row2 >= 0 /\ row < Len(l) /\ row2 < Len(l)
    /\ l2 = [i \in 1..Len(l) |->
                IF i = row + 1 THEN l[row2 + 1] ELSE IF i = row2 + 1 THEN l[row + 1] ELSE l[i]]

\* move_up or move_down has run on the list l with current row row and
\* left the list l2: l2 is l, or l with the current entry and its neighbour
\* exchanged, and holds the entries of l as often as l does.
MovePermutes(op, l, row, l2) ==
    /\ \/ l2 = l
       \/ op = "move_up" /\ Swapped(l, l2, row, row - 1)
       \/ op = "move_down" /\ Swapped(l, l2, row, row + 1)
    /\ Len(l2) = Len(l)
    /\ \A x \in Range(l) \cup Range(l2) : CountOf(l2, x) = CountOf(l, x)

\* C19: move_up and move_down leave the disk list as it is or exchange the
\* current entry with its neighbour, keeping the length and the multiset of
\* the entries; move_up does nothing on row 0 or with no current row, and
\* move_down does nothing on the last row or with no current row (row -1).
C19_MovesArePermutations ==
    LET w == form[tab]
        NoOp(o) == o.w = w /\ o.exc = "none"
    IN  /\ \A o \in DrivesTab_move_up(w) :
              /\ MovePermutes("move_up", w.disk_list, w.disk_row, o.w.disk_list)
              /\ w.disk_row <= 0 => NoOp(o)
        /\ \A o \in DrivesTab_move_down(w) :
              /\ MovePermutes("move_down", w.disk_list, w.disk_row, o.w.disk_list)
              /\ (w.disk_row = -1 \/ w.disk_row = Len(w.disk_list) - 1) => NoOp(o)

\* What holds of the two slots: the list is permuted as C19 says, and
\* each slot does nothing when its guard fails, which for move_down is
\* the last row or an empty list.
C19_ListPermuted ==
    LET w == form[tab]
        NoOp(o) == o.w = w /\ o.exc = "none"
    IN  /\ \A o \in DrivesTab_move_up(w) :
              /\ MovePermutes("move_up", w.disk_list, w.disk_row, o.w.disk_list)
              /\ w.disk_row <= 0 => NoOp(o)
        /\ \A o \in DrivesTab_move_down(w) :
              /\ MovePermutes("move_down", w.disk_list, w.disk_row, o.w.disk_list)
              /\ ~(w.disk_row < Len(w.disk_list) - 1) => NoOp(o)

\* The last operation was launch_emulator for emulator e and has started
\* a process.
Launched(e) ==
    /\ lastOp = LaunchOp(e)
    /\ proc # NoProcess

\* The file of emulator e holds what save writes for the form of e.
HoldsForm(e) ==
    fs[settings[e]] = File(ConfigParser_save(EmulatorTab_save_config(form[e], e)))

SaveFailed == \E p \in Paths : io[p] \in {"open_failed", "write_failed"}

\* C11 as the spec states it: a process is started only after the form of
\* its emulator has been collected and saved to the emulator's config path
\* in the same operation, and with the arguments --config <path>; none is
\* started when the save fails.
C11_LaunchOrdering ==
    /\ \A e \in Emus :
          Launched(e) => /\ settings[e] # ""
                         /\ io[settings[e]] = "ok"
                         /\ HoldsForm(e)
                         /\ proc = <<exe[e], "--config", settings[e]>>
    /\ \A e \in Emus : (lastOp = LaunchOp(e) /\ SaveFailed) => proc = NoProcess

\* C11 as the code has it: with a config path set for the emulator the
\* process is started after the successful save and with --config <path>;
\* with no config path set nothing is saved and the process is started
\* with the executable alone; no process is started when the save fails.
C11_LaunchAfterSave ==
    /\ \A e \in Emus :
          Launched(e) => IF settings[e] # ""
                         THEN /\ io[settings[e]] = "ok"
                              /\ HoldsForm(e)
                              /\ proc = <<exe[e], "--config", settings[e]>>
                         ELSE /\ proc = <<exe[e]>>
                              /\ \A p \in Paths : io[p] = "none"
    /\ \A e \in Emus : (lastOp = LaunchOp(e) /\ SaveFailed) => proc = NoProcess

\* Basilisk was started on the file just written from a form with disks.
C11_Witness ==
    /\ Launched("basilisk")
    /\ io[BasiliskCfg] = "ok"
    /\ proc = <<BasiliskExe, "--config", BasiliskCfg>>
    /\ form["basilisk"].disk_list # <<>>
    /\ HoldsForm("basilisk")

\* The launch of emulator e is aborted: no executable set, or none there.
NoExecutable(e) == exe[e] = "" \/ exe[e] \notin programs

\* C12: launch_emulator for an emulator whose executable path is unset or
\* names no existing file shows a warning, starts no process, raises
\* nothing and leaves the files, the forms and the settings as they were.
C12_LaunchAbort ==
    [][\A e \in Emus :
          (lastOp' = LaunchOp(e) /\ NoExecutable(e))
              => /\ msg'.kind = "warning"
                 /\ msg'.cause = (IF exe[e] = "" THEN "unset" ELSE "missing")
                 /\ proc' = NoProcess
                 /\ exc' = "none"
                 /\ UNCHANGED <<fs, form, settings, exe, writable, programs, images, tab>>]_vars

\* A launch was refused because the executable set does not exist, with
\* a config path set and a form that has a disk to save.
C12_Witness ==
    /\ msg.kind = "warning"
    /\ msg.cause = "missing"
    /\ proc = NoProcess
    /\ \E e \in Emus : /\ lastOp = LaunchOp(e)
                       /\ exe[e] # "" /\ exe[e] \notin programs
                       /\ settings[e] # ""
                       /\ ~HoldsForm(e)

\* C20: launch_emulator for emulator e writes no file but the config file
\* of e, changes no form, and writes no file at all when it is aborted
\* for an executable path that is unset or names no existing file.
C20_LaunchWritesOwnFile ==
    [][\A e \in Emus :
          lastOp' = LaunchOp(e)
              => /\ \A p \in Paths : p # settings[e] => fs'[p] = fs[p]
                 /\ form' = form
                 /\ NoExecutable(e) => fs' = fs]_vars

\* A launch has written the file of its emulator, which held something
\* else before, and the other emulator has a file too.
C20_Witness ==
    /\ \E e \in Emus : /\ Launched(e)
                       /\ settings[e] # "" /\ io[settings[e]] = "ok"
                       /\ settings[Other(e)] # ""
                       /\ fs[settings[Other(e)]].exists
                       /\ fs[settings[Other(e)]] # fs[settings[e]]
                       /\ ~(\E x \in {Other(e)} : HoldsForm(x))

\* The keys of the lines of a file, blank lines left out.
FileKeys(file) ==
    LET Keys(L) == {line_key(l) : l \in {strip(L[i]) : i \in 1..Len(L)} \ {<<>>}}
    IN  IF file.exists THEN Keys(SelectSeq(readlines(file.text), LAMBDA l : TRUE)) ELSE {}

\* The last operation has written the file of emulator e with success.
Written(e) == settings[e] # "" /\ io[settings[e]] = "ok"

\* C13: after a successful save of a dict d to a path the file holds what
\* save writes for d and nothing else, whatever the file held before: in
\* every state a save has just led to, from any earlier content of the
\* file, the file is the serialization of the dict collected for the save.
C13_WholesaleOverwrite ==
    \A e \in Emus :
        Written(e) => fs[settings[e]] = File(ConfigParser_save(EmulatorTab_save_config(form[e], e)))

\* Save All has written the Basilisk file, whose loaded content had a
\* line with the key cdrom; the file has no such line any more.
C13_Witness ==
    /\ lastOp = "save_all_configs"
    /\ Written("basilisk")
    /\ dict_has(form["basilisk"].config, K_cdrom)
    /\ K_cdrom \notin FileKeys(fs[BasiliskCfg])
    /\ HoldsForm("basilisk")

\* The keys the save_config methods of the eight tabs assign for both
\* emulator types, and the ones they assign for one type only.
CommonKeys ==
    {K.disks, K.extfs, K.rom, K.bootdrive, K.bootdriver, K.nocdrom,
     K.screen, K.displaycolordepth, K.frameskip, K.scale_nearest, K.scale_integer,
     K.mag_rate, K.sdlrender,
     K.nosound, K.sound_buffer, K.dsp, K.mixer,
     K.ether,
     K.ramsize, K.jit,
     K.keyboardtype, K.keycodes, K.keycodefile, K.hotkey, K.swap_opt_cmd,
     K.mousewheelmode, K.mousewheellines, K.init_grab,
     K.seriala, K.serialb,
     K.nogui, K.noclipconversion, K.ignoresegv, K.idlewait, K.yearofs, K.dayofs,
     K.name_encoding}

SpecificKeys(e) ==
    IF e = "basilisk"
    THEN {K.udptunnel, K.udpport, K.cpu, K.modelid, K.fpu, K.jitfpu, K.jitcachesize,
          K.jitlazyflush, K.jitinline, K.jitdebug, K.delay}
    ELSE {K.gfxaccel, K.nonet, K.cpuclock, K.jit68k, K.hardcursor, K.ignoreillegal}

FormKeys(e) == CommonKeys \cup SpecificKeys(e)

\* The last operation has called ConfigParser.save for emulator e.
SaveCalled(e) == settings[e] # "" /\ io[settings[e]] # "none"

\* C14: the dict save_all_configs or launch_emulator hands to save is the
\* one EmulatorTab.save_config builds from the form at that moment: its
\* keys are the keys bound to the widgets of that emulator type, each once
\* and none of the other type's own, the file a successful save leaves is
\* what save writes for it, and a key of the loaded dict that no widget is
\* bound to is the key of no line of that file.
C14_CollectOnly ==
    \A e \in Emus :
        SaveCalled(e) =>
            \A d \in {EmulatorTab_save_config(form[e], e)} :
                /\ Range(dict_keys(d)) = FormKeys(e)
                /\ Len(d) = Cardinality(FormKeys(e))
                /\ Range(dict_keys(d)) \cap SpecificKeys(Other(e)) = {}
                /\ Written(e) =>
                      /\ ConfigParser_save(d) = fs[settings[e]].text
                      /\ \A k \in Range(dict_keys(form[e].config)) \ FormKeys(e) :
                            k \notin FileKeys(fs[settings[e]])

\* A launch has saved the Basilisk form; the dict kept from the load has
\* the keys cdrom, bound to no widget, and gfxaccel, saved for Sheepshaver
\* only, and the file written has a line with neither.
C14_Witness ==
    /\ Launched("basilisk")
    /\ Written("basilisk")
    /\ dict_has(form["basilisk"].config, K_cdrom)
    /\ dict_has(form["basilisk"].config, K.gfxaccel)
    /\ FileKeys(fs[BasiliskCfg]) \cap {K_cdrom, K.gfxaccel} = {}
    /\ K.jit \in FileKeys(fs[BasiliskCfg])

\* ------------------------------------------------------------------------
\* An EmulatorTab and ConfigParser on one path: edit, collect, save, parse,
\* load
\* ------------------------------------------------------------------------
V_96MiB == <<"1", "0", "0", "6", "6", "3", "2", "9", "6">>
V_15 == <<"1", "5">>
V_neg62 == <<"-", "6", "2">>

\* Files found before the program runs: one whose ramsize is none of the
\* sizes offered, whose colour depth is none of the depths offered and
\* whose screen value has one part; one without ramsize that boots from
\* CD-ROM (bootdriver -62); one without ramsize that loads.
FormTexts ==
    {join_lines(<<K.ramsize \o <<" ">> \o V_96MiB,
                  K.displaycolordepth \o <<" ">> \o V_15,
                  K.screen \o <<" ">> \o T.win>>),
     join_lines(<<K.bootdriver \o <<" ">> \o V_neg62>>),
     join_lines(<<DiskLine(V_a), K.jit \o <<" ">> \o S_true>>)}

\* What the user can enter in the widgets: 1 GB in the RAM size combo box,
\* a negative year offset, texts that read as a bool and as a number, a
\* colour depth and a screen width.
WidgetEdits ==
    {<<"ram_size", 7>>, <<"year_offset", -5>>, <<"extfs_edit", S_true>>,
     <<"dsp_edit", V_007>>, <<"color_depth", T.d32>>, <<"screen_width", 1024>>}

\* The tab of one emulator type as init_ui leaves it, before any load.
FormInit ==
    /\ \E f \in {NoFile} \cup {File(t) : t \in FormTexts} :
          fs = [p \in Paths |-> IF p = BasiliskCfg THEN f ELSE NoFile]
    /\ tab \in Emus
    /\ writable = [p \in Paths |-> TRUE]
    /\ doc = <<>>
    /\ origin = "none"
    /\ saved = [origin |-> "none", doc |-> <<>>]
    /\ lastOp = "none"
    /\ exc = "none"
    /\ settings = [e \in Emus |-> ""]
    /\ form = [e \in Emus |-> InitialForm]
    /\ msg = NoMessage
    /\ io = [p \in Paths |-> "none"]
    /\ images = {}
    /\ exe = [e \in Emus |-> ""]
    /\ programs = {}
    /\ proc = NoProcess

UnchangedApp == UNCHANGED <<writable, settings, msg, io, images, tab, exe, programs, proc>>

\* The user sets a widget of the tab; the form is edited before it is
\* stored or read back.
FormEdit(widget, value) ==
    /\ origin = "none"
    /\ form[tab][widget] # value
    /\ form' = [form EXCEPT ![tab][widget] = value]
    /\ lastOp' = "edit"
    /\ UNCHANGED <<fs, doc, origin, saved, exc>>
    /\ UnchangedApp

\* config = tab.save_config(): of the form as edited, or of the form a
\* load has left.
FormCollect ==
    /\ \/ origin = "none" /\ origin' = "collected"
       \/ lastOp = "load" /\ origin' = "recollected"
    /\ doc' = EmulatorTab_save_config(form[tab], tab)
    /\ lastOp' = "collect"
    /\ exc' = "none"
    /\ UNCHANGED <<fs, form, saved>>
    /\ UnchangedApp

\* ConfigParser.save(path, config) of the dict collected.
FormSave ==
    /\ lastOp = "collect"
    /\ origin = "collected"
    /\ StoreSave

\* config = ConfigParser.parse(path): of the file found, or of the file
\* just saved.
FormParse ==
    /\ \/ origin = "none"
       \/ origin = "collected" /\ lastOp = "save"
    /\ fs[BasiliskCfg].exists
    /\ StoreParse

\* tab.load_config(config) of the dict parse has returned.
FormLoad ==
    /\ lastOp = "parse"
    /\ exc = "none"
    /\ \E l \in {EmulatorTab_load_config(form[tab], doc, tab)} :
          /\ form' = [form EXCEPT ![tab] = l.w]
          /\ exc' = l.exc
    /\ lastOp' = "load"
    /\ UNCHANGED <<fs, doc, origin, saved>>
    /\ UnchangedApp

FormNext ==
    \/ \E edit \in WidgetEdits : FormEdit(edit[1], edit[2])
    \/ FormCollect
    \/ FormSave
    \/ FormParse
    \/ FormLoad

SpecForm == FormInit /\ [][FormNext]_vars

\* ------------------------------------------------------------------------
\* Claims about the form (checked under SpecForm)
\* ------------------------------------------------------------------------
\* The dict collected first has been saved, and what follows reads it back.
ReadingBack == saved.origin = "collected" /\ origin # "collected"

\* C17: for every form an EmulatorTab can hold, collect, save, parse, load
\* and collect run without an exception and the second collect returns
\* the dict of the first, key by key with the same values and types; so
\* with a negative year offset and with text fields whose text reads as a
\* bool or as a number.
C17_FormRoundTrip ==
    /\ (ReadingBack /\ lastOp \in {"parse", "load"}) => exc = "none"
    /\ (ReadingBack /\ origin = "recollected") => doc = saved.doc

\* What holds: the round trip returns the first dict when the year offset
\* is not negative and no text field reads as a bool or as a number.
C17_PlainFormRoundTrip ==
    (/\ ReadingBack
     /\ dict_get(saved.doc, K.yearofs, Missing) = IntVal(0)
     /\ dict_get(saved.doc, K.extfs, Missing) = StrVal(<<>>)
     /\ dict_get(saved.doc, K.dsp, Missing) = StrVal(<<>>))
        => /\ lastOp \in {"parse", "load"} => exc = "none"
           /\ origin = "recollected" => doc = saved.doc

\* A form with 1 GB of RAM, 32 bit colour depth and a width of 1024 has
\* come back from the round trip.
C17_PlainWitness ==
    /\ ReadingBack /\ origin = "recollected" /\ doc = saved.doc
    /\ dict_get(doc, K.ramsize, Missing) = IntVal(1073741824)
    /\ dict_get(doc, K.displaycolordepth, Missing) = IntVal(32)

\* The load of the dict doc into the tab as init_ui leaves it.
ReferenceLoad == EmulatorTab_load_config(InitialForm, doc, tab)

\* C18: after EmulatorTab.load_config(d) the form, as collect reads it,
\* depends on d alone: whatever the widgets held before, the load ends as
\* it ends on the tab init_ui leaves and collect returns the same dict; so
\* for a ramsize that is none of the sizes offered, a colour depth that is
\* none of the depths offered and a screen value of fewer than three parts.
C18_LoadDeterminism ==
    lastOp = "load"
        => \A ref \in {ReferenceLoad} :
              /\ exc = ref.exc
              /\ EmulatorTab_save_config(form[tab], tab) = EmulatorTab_save_config(ref.w, tab)

\* The dict loaded has for ramsize one of the sizes offered or none, for
\* displaycolordepth one of the depths offered or none, and a screen value
\* of three parts or more or none.
EveryWidgetSet(d) ==
    /\ \E i \in 1..Len(RamSizes) :
          py_eq_int(dict_get(d, K.ramsize, IntVal(134217728)), RamSizes[i])
    /\ \E n \in {0, 8, 16, 24, 32} :
          py_eq_int(dict_get(d, K.displaycolordepth, IntVal(0)), n)
    /\ Len(split_slash(py_str(dict_get(d, K.screen, StrVal(T.screen_default))))) >= 3

\* What holds: a load that returns leaves a form that depends on the dict
\* alone when each of the three values selects an item of its widget.
C18_LoadOfOfferedValues ==
    (lastOp = "load" /\ exc = "none" /\ EveryWidgetSet(doc))
        => \A ref \in {ReferenceLoad} :
              /\ ref.exc = "none"
              /\ EmulatorTab_save_config(form[tab], tab) = EmulatorTab_save_config(ref.w, tab)

\* A load that returns of a dict with a ramsize that is not offered, onto
\* a form that held 1 GB, has left 1 GB in the form.
C18_PriorRamKept ==
    /\ lastOp = "load" /\ exc = "none"
    /\ dict_get(doc, K.ramsize, Missing) = IntVal(100663296)
    /\ form[tab].ram_size = 7

\* C15: parse returns no key that no line of the file has, the reserved
\* field 'disks' aside, and after the load of a dict without 'ramsize' the
\* next collect returns ramsize = 134217728, whatever the form held before.
C15_RamDefault ==
    /\ (lastOp = "parse" /\ exc = "none" /\ StoreFile.exists)
          => Range(dict_keys(doc)) \ {K_disks} \subseteq FileKeys(StoreFile)
    /\ (lastOp = "load" /\ ~dict_has(doc, K.ramsize))
          => dict_get(EmulatorTab_save_config(form[tab], tab), K.ramsize, Missing) = IntVal(134217728)

\* What holds: the same for a load that returns.
C15_RamDefaultOfLoadThatReturns ==
    /\ (lastOp = "parse" /\ exc = "none" /\ StoreFile.exists)
          => Range(dict_keys(doc)) \ {K_disks} \subseteq FileKeys(StoreFile)
    /\ (lastOp = "load" /\ exc = "none" /\ ~dict_has(doc, K.ramsize))
          => dict_get(EmulatorTab_save_config(form[tab], tab), K.ramsize, Missing) = IntVal(134217728)

\* A dict without ramsize was loaded and the form holds 128 MB.
C15_DefaultApplied ==
    /\ lastOp = "load" /\ exc = "none" /\ ~dict_has(doc, K.ramsize)
    /\ dict_get(doc, K.jit, Missing) = BoolVal(TRUE)
    /\ form[tab].ram_size = 4

\* ------------------------------------------------------------------------
\* Claims about Save All and Reload
\* ------------------------------------------------------------------------
\* The outcomes of a save that raised.
Raised == {"open_failed", "write_failed"}

\* C21: save_all_configs touches no path but the config paths that are
\* set; it saves the Basilisk file first; when that save raises, the
\* Sheepshaver file is neither opened nor changed; otherwise the
\* Sheepshaver file is saved next; the success message is shown if and
\* only if no save raised, and the error message naming the cause is
\* shown otherwise.
C21_SaveAllOutcome ==
    [][lastOp' = "save_all_configs" =>
          LET pb == settings["basilisk"]
              ps == settings["sheepshaver"]
          IN  /\ \A p \in Paths \ {pb, ps} : io'[p] = "none" /\ fs'[p] = fs[p]
              /\ pb # "" => io'[pb] # "none"
              /\ (pb # "" /\ io'[pb] \in Raised)
                    => /\ \A p \in Paths \ {pb} : io'[p] = "none" /\ fs'[p] = fs[p]
                       /\ msg' = [kind |-> "critical", title |-> "Error", cause |-> SaveError(io'[pb])]
              /\ (ps # "" /\ (pb = "" \/ io'[pb] = "ok"))
                    => /\ io'[ps] # "none"
                       /\ io'[ps] \in Raised
                             => msg' = [kind |-> "critical", title |-> "Error",
                                        cause |-> SaveError(io'[ps])]
              /\ msg'.kind = "information" <=> \A p \in Paths : io'[p] \notin Raised
              /\ msg'.kind = "information"
                    => \A e \in Emus : settings[e] # "" => io'[settings[e]] = "ok"]_vars

\* The Basilisk save has raised on a full disk; the Sheepshaver path is
\* set, its file is as it was loaded and not what the form would have been
\* saved as, and the error message is shown.
C21_Witness ==
    /\ lastOp = "save_all_configs"
    /\ io[BasiliskCfg] = "write_failed"
    /\ settings["sheepshaver"] = SheepshaverCfg
    /\ io[SheepshaverCfg] = "none"
    /\ fs[SheepshaverCfg].exists
    /\ ~HoldsForm("sheepshaver")
    /\ msg.kind = "critical"

\* The Basilisk file was written and the Sheepshaver save then raised.
C21_SecondSaveRaised ==
    /\ lastOp = "save_all_configs"
    /\ Written("basilisk")
    /\ HoldsForm("basilisk")
    /\ io[SheepshaverCfg] = "open_failed"
    /\ msg.kind = "critical"

\* Basilisk has no config path: Save All wrote the Sheepshaver file alone
\* and shows the success message.
C21_UnsetSkipped ==
    /\ lastOp = "save_all_configs"
    /\ settings["basilisk"] = ""
    /\ Written("sheepshaver")
    /\ io[BasiliskCfg] = "none"
    /\ ~fs[BasiliskCfg].exists
    /\ msg.kind = "information"

\* ------------------------------------------------------------------------
\* The application with Reload: the settings, two widgets, Save All and
\* Reload
\* ------------------------------------------------------------------------
\* What the user sets in a tab between loads: a negative year offset (the
\* spin box allows -100..100).
ReloadEdits == {<<"year_offset", -5>>}

\* The user sets a widget of the tab of emulator e.
edit_widget(e, widget, value) ==
    /\ form[e][widget] # value
    /\ form' = [form EXCEPT ![e][widget] = value]
    /\ lastOp' = "edit"
    /\ exc' = "none"
    /\ msg' = NoMessage
    /\ io' = [p \in Paths |-> "none"]
    /\ proc' = NoProcess
    /\ UNCHANGED <<fs, tab>>
    /\ UnchangedStore

\* SettingsTab.save_settings: the user has set or cleared the config path
\* fields, left the executable fields as load_settings filled them, and
\* clicks Save Settings.
save_settings(cfg) ==
    /\ settings' = cfg
    /\ exe' = exe
    /\ msg' = [kind |-> "information", title |-> "Settings", cause |-> "none"]
    /\ lastOp' = "save_settings"
    /\ exc' = "none"
    /\ io' = [p \in Paths |-> "none"]
    /\ proc' = NoProcess
    /\ UNCHANGED <<fs, form, tab, doc, origin, saved, writable, images, programs>>

ReloadNext ==
    \/ \E e \in Emus, edit \in ReloadEdits : edit_widget(e, edit[1], edit[2])
    \/ \E cfg \in [Emus -> {""} \cup Paths] :
          /\ \A e \in Emus : cfg[e] \in {"", CfgPath(e)}
          /\ save_settings(cfg)
    \/ save_all_configs(TRUE)
    \/ load_configs

\* The writes of a save succeed here once the file is open; a file that
\* cannot be opened for writing still fails.
SpecReload == Init /\ [][ReloadNext]_vars

\* ------------------------------------------------------------------------
\* Claims about Reload (checked under SpecReload)
\* ------------------------------------------------------------------------
\* C22: load_configs parses and loads the file of an emulator only when
\* its config path is set and the file exists; otherwise parse is not
\* called for it and its form is left exactly as it was; and each emulator
\* is handled independently of the other: after a Reload the form of each
\* emulator is what the handling of that emulator alone makes of it, and
\* its file has been parsed if its path is set and the file exists.
C22_ReloadKeepsForm ==
    [][lastOp' = "load_configs" =>
          \A e \in Emus :
              /\ ~Reloadable(settings, fs, e)
                    => /\ form'[e] = form[e]
                       /\ \A p \in Paths : io'[p] = "parsed" => p = settings[Other(e)]
              /\ Reloadable(settings, fs, e) => io'[settings[e]] = "parsed"
              /\ form'[e] = load_one(form, fs, settings, e).form[e]]_vars

\* What holds of every Reload: an emulator whose path is unset or whose
\* file is missing has no file parsed and keeps its form, whatever the
\* other emulator's part does.
C22_SkippedKeepsForm ==
    [][lastOp' = "load_configs" =>
          \A e \in Emus :
              ~Reloadable(settings, fs, e)
                  => /\ form'[e] = form[e]
                     /\ \A p \in Paths : io'[p] = "parsed" => p = settings[Other(e)]]_vars

\* What holds of every Reload in which the Basilisk part does not raise:
\* each emulator's form is what its own handling makes of it.
C22_IndependentUnlessRaised ==
    [][(lastOp' = "load_configs" /\ (exc' = "none" \/ io'[SheepshaverCfg] = "parsed"))
          => \A e \in Emus :
                /\ Reloadable(settings, fs, e) => io'[settings[e]] = "parsed"
                /\ form'[e] = load_one(form, fs, settings, e).form[e]]_vars

\* A Reload has parsed the Basilisk file and skipped Sheepshaver, whose
\* path is set and whose file is missing; the Sheepshaver form keeps the
\* year offset the user set, which is neither the default nor init_ui's
\* value.
C22_SkippedKept ==
    /\ lastOp = "load_configs"
    /\ exc = "none"
    /\ io[BasiliskCfg] = "parsed"
    /\ settings["sheepshaver"] = SheepshaverCfg
    /\ ~fs[SheepshaverCfg].exists
    /\ io[SheepshaverCfg] = "none"
    /\ form["sheepshaver"].year_offset = -5
    /\ form["basilisk"].year_offset = 0

\* A Reload whose Basilisk part raised: the Sheepshaver file, whose path
\* is set and which exists, was not parsed, and the Sheepshaver form keeps
\* what the user set.
C22_SecondNotReached ==
    /\ lastOp = "load_configs"
    /\ exc = "TypeError"
    /\ Reloadable(settings, fs, "sheepshaver")
    /\ io[SheepshaverCfg] = "none"
    /\ form["sheepshaver"].year_offset = -5
    /\ ConfigParser_parse(fs[SheepshaverCfg]).exc = "none"
    /\ dict_get(ConfigParser_parse(fs[SheepshaverCfg]).ret, K.yearofs, IntVal(0)) = IntVal(0)

====
